---- MODULE Spec2Model ----
(***************************************************************************)
(* Model of the measurement evaluation core of streamlit_app.py:           *)
(* evaluate_measurement (the per-reading classifier) and                   *)
(* summarize_series_outcome (the series summarizer).                       *)
(*                                                                         *)
(* The functions are pure; a behaviour is one call: Init draws the         *)
(* arguments, the action applies the function and stores what it returns.  *)
(* Numbers are exact: a test statistic is a rational [num, den], den > 0,  *)
(* compared with a bound by cross multiplication.  Optional values         *)
(* (a dict key that is absent, a None argument) are <<>> or <<x>>.         *)
(***************************************************************************)
EXTENDS Integers, Sequences, FiniteSets, TLC

VARIABLES pc, op, value, criterion, baseline, result,
          measurements, statuses, details, outcome, raw_values, tests,
          scenario, count, rng, first_call, between, inputs

(* the arguments of the call *)
args == <<op, value, criterion, baseline, measurements, statuses, details, raw_values,
          tests, scenario, count, inputs>>

(* the generator of the latest simulate_measurements call, the first such call, and
   whether a call with other arguments followed it *)
calls == <<rng, first_call, between>>

vars == <<pc, args, calls, result, outcome>>

----------------------------------------------------------------------------
(* Bounds of the model *)

MaxBound == 3
MaxValue == 4
MaxDelta == 2
MaxLen == 3
MaxMeas == 2
MaxText == 5
MaxCrit == 2
MaxLimit == 5
MaxCount == 3
MaxSeedLen == 7
MaxRows == 2
MaxKv == 2
MaxEntries == 3
MaxSamples == 4

(* Program constants.  Series measurements are counted in units of the trend
   tolerance 1e-9, so the tolerance is 1. *)

SimBaseline == 100
PercentScale == 100
TrendTol == 1

----------------------------------------------------------------------------
(* Optional values *)

None == <<>>
Some(x) == <<x>>
Get(o, default) == IF o = None THEN default ELSE o[1]

(* Exact rationals *)

Rat(n) == [num |-> n, den |-> 1]
Quot(a, b) == [num |-> IF b < 0 THEN -a ELSE a, den |-> IF b < 0 THEN -b ELSE b]
RatAbs(r) == [num |-> IF r.num < 0 THEN -r.num ELSE r.num, den |-> r.den]
RatScale(r, k) == [num |-> r.num * k, den |-> r.den]
Lt(r, bound) == r.num < bound * r.den
Gt(r, bound) == r.num > bound * r.den
RatEq(r, s) == r.num * s.den = s.num * r.den

(* f"{x:.2f}": x rounded to hundredths, ties to even *)
Fmt2(r) ==
    LET n == 2 * 100 * r.num + r.den
        d == 2 * r.den
        q == n \div d
    IN  IF n % d = 0 /\ q % 2 = 1 THEN q - 1 ELSE q

----------------------------------------------------------------------------
(* evaluate_measurement *)

Modes == {"absolute", "percentage_change", "ratio", "qualitative"}

ReviewResult ==
    [status |-> "Review",
     detail |-> [text |-> "Document observations - qualitative checks rely on professional judgment.",
                 shown |-> None, unit |-> None, notes |-> <<>>]]

InfoValueResult ==
    [status |-> "Info",
     detail |-> [text |-> "Enter a numeric value to evaluate.",
                 shown |-> None, unit |-> None, notes |-> <<>>]]

InfoBaselineResult ==
    [status |-> "Info",
     detail |-> [text |-> "Baseline or reference value is required to compute percent change.",
                 shown |-> None, unit |-> None, notes |-> <<>>]]

BaselineMissing_NoneOnly(b) == b = None

(* baseline in (None, 0) *)
BaselineMissing(b) == b = None \/ b[1] = 0

Precheck_ValueFirst(eval_type, v, b) ==
    IF v = None THEN Some(InfoValueResult)
    ELSE IF eval_type = "qualitative" THEN Some(ReviewResult)
    ELSE IF eval_type = "percentage_change" /\ BaselineMissing(b)
         THEN Some(InfoBaselineResult)
    ELSE None

Precheck_BaselineFirst(eval_type, v, b) ==
    IF eval_type = "qualitative" THEN Some(ReviewResult)
    ELSE IF eval_type = "percentage_change" /\ BaselineMissing(b)
         THEN Some(InfoBaselineResult)
    ELSE IF v = None THEN Some(InfoValueResult)
    ELSE None

(* the early returns; <<>> when the call goes on to the bound checks *)
Precheck(eval_type, v, b) ==
    IF eval_type = "qualitative" THEN Some(ReviewResult)
    ELSE IF v = None THEN Some(InfoValueResult)
    ELSE IF eval_type = "percentage_change" /\ BaselineMissing(b)
         THEN Some(InfoBaselineResult)
    ELSE None

PercentChange_Signed(v, b) == RatScale(Quot(v - b, b), PercentScale)

(* abs((value - baseline) / baseline) * 100 *)
PercentChange(v, b) == RatScale(RatAbs(Quot(v - b, b)), PercentScale)

ComparisonValue(eval_type, v, b) ==
    IF eval_type = "percentage_change" THEN PercentChange(v[1], b[1]) ELSE Rat(v[1])

BaseDetail(eval_type, stat, c) ==
    IF eval_type = "percentage_change"
    THEN [text |-> "Computed change: %", shown |-> Some(Fmt2(stat)), unit |-> None, notes |-> <<>>]
    ELSE IF eval_type = "ratio"
    THEN [text |-> "Measured ratio:", shown |-> Some(Fmt2(stat)), unit |-> None, notes |-> <<>>]
    ELSE [text |-> "Measured value:", shown |-> Some(Fmt2(stat)), unit |-> c.unit, notes |-> <<>>]

Note(r, text, bound) ==
    [r EXCEPT !.detail.notes = Append(@, [text |-> text, bound |-> bound])]

(* if minimum ... elif investigate_below ... *)
LowerBlock(r, stat, c) ==
    IF c.minimum # None /\ Lt(stat, c.minimum[1])
    THEN Note([r EXCEPT !.status = "Fail"], "below minimum of", c.minimum[1])
    ELSE IF c.investigate_below # None /\ Lt(stat, c.investigate_below[1])
    THEN Note([r EXCEPT !.status = "Investigate"], "below caution threshold of",
              c.investigate_below[1])
    ELSE r

UpperBlock_Inclusive(r, stat, c) ==
    IF c.maximum # None /\ ~Lt(stat, c.maximum[1])
    THEN Note([r EXCEPT !.status = "Fail"], "above maximum of", c.maximum[1])
    ELSE IF c.investigate_above # None /\ ~Lt(stat, c.investigate_above[1])
    THEN Note([r EXCEPT !.status = "Investigate"], "above caution threshold of",
              c.investigate_above[1])
    ELSE r

UpperBlock_ResetsStatus(r, stat, c) ==
    IF c.maximum # None /\ Gt(stat, c.maximum[1])
    THEN Note([r EXCEPT !.status = "Fail"], "above maximum of", c.maximum[1])
    ELSE IF c.investigate_above # None /\ Gt(stat, c.investigate_above[1])
    THEN Note([r EXCEPT !.status = "Investigate"], "above caution threshold of",
              c.investigate_above[1])
    ELSE [r EXCEPT !.status = "Pass"]

UpperBlock_CautionFirst(r, stat, c) ==
    IF c.investigate_above # None /\ Gt(stat, c.investigate_above[1])
    THEN Note([r EXCEPT !.status = "Investigate"], "above caution threshold of",
              c.investigate_above[1])
    ELSE IF c.maximum # None /\ Gt(stat, c.maximum[1])
    THEN Note([r EXCEPT !.status = "Fail"], "above maximum of", c.maximum[1])
    ELSE r

UpperBlock_KeepsLower(r, stat, c) ==
    IF r.status # "Pass" THEN r
    ELSE IF c.maximum # None /\ Gt(stat, c.maximum[1])
    THEN Note([r EXCEPT !.status = "Fail"], "above maximum of", c.maximum[1])
    ELSE IF c.investigate_above # None /\ Gt(stat, c.investigate_above[1])
    THEN Note([r EXCEPT !.status = "Investigate"], "above caution threshold of",
              c.investigate_above[1])
    ELSE r

(* if maximum ... elif investigate_above ... *)
UpperBlock(r, stat, c) ==
    IF c.maximum # None /\ Gt(stat, c.maximum[1])
    THEN Note([r EXCEPT !.status = "Fail"], "above maximum of", c.maximum[1])
    ELSE IF c.investigate_above # None /\ Gt(stat, c.investigate_above[1])
    THEN Note([r EXCEPT !.status = "Investigate"], "above caution threshold of",
              c.investigate_above[1])
    ELSE r

(* a zero divisor at line 767 raises; the early return keeps the call from it *)
ZeroDivisionError ==
    [status |-> "ZeroDivisionError",
     detail |-> [text |-> "", shown |-> None, unit |-> None, notes |-> <<>>]]

evaluate_measurement(v, c, b) ==
    LET eval_type == Get(c.evaluation_type, "absolute")
        early == Precheck(eval_type, v, b)
    IN  IF early # None THEN early[1]
        ELSE IF eval_type = "percentage_change" /\ b[1] = 0 THEN ZeroDivisionError
        ELSE LET stat == ComparisonValue(eval_type, v, b)
                 r0 == [status |-> "Pass", detail |-> BaseDetail(eval_type, stat, c)]
             IN  UpperBlock(LowerBlock(r0, stat, c), stat, c)

----------------------------------------------------------------------------
(* summarize_series_outcome *)

Statuses == {"Pass", "Investigate", "Fail", "Review", "Info"}

RECURSIVE CountOf(_, _)
(* Counter(statuses)[s] *)
CountOf(seq, s) ==
    IF seq = <<>> THEN 0
    ELSE (IF seq[1] = s THEN 1 ELSE 0) + CountOf(Tail(seq), s)

Trend_NoTolerance(first, last) ==
    IF last > first THEN "increasing"
    ELSE IF last < first THEN "decreasing"
    ELSE "flat"

(* if last > first + 1e-9 ... elif last < first - 1e-9 ... else *)
Trend(first, last) ==
    IF last > first + TrendTol THEN "increasing"
    ELSE IF last < first - TrendTol THEN "decreasing"
    ELSE "flat"

Severity_CautionFirst(sts) ==
    IF CountOf(sts, "Investigate") # 0 THEN "warning"
    ELSE IF CountOf(sts, "Fail") # 0 THEN "error"
    ELSE "success"

(* if counts.get("Fail") ... elif counts.get("Investigate") ... else *)
Severity(sts) ==
    IF CountOf(sts, "Fail") # 0 THEN "error"
    ELSE IF CountOf(sts, "Investigate") # 0 THEN "warning"
    ELSE "success"

Latest_First(seq) == seq[1]

(* details[-1], statuses[-1], measurements[-1] *)
Latest(seq) == seq[Len(seq)]

summarize_series_outcome(ms, sts, ds, c) ==
    IF Len(ds) = 0 \/ Len(sts) = 0 \/ Len(ms) = 0
    THEN [raised |-> "IndexError"]
    ELSE LET severity == Severity(sts)
             latest_detail == Latest(ds)
             latest_status == Latest(sts)
             trend == Trend(ms[1], Latest(ms))
         IN  [raised |-> "",
              severity |-> severity,
              summary |->
                [lead |-> IF severity = "error"
                          THEN "measurement(s) exceeded the published limit."
                          ELSE IF severity = "warning"
                          THEN "measurement(s) entered the investigate band."
                          ELSE "readings remain within the advisory band.",
                 count |-> IF severity = "error" THEN CountOf(sts, "Fail")
                           ELSE IF severity = "warning" THEN CountOf(sts, "Investigate")
                           ELSE Len(ms),
                 latest_status |-> IF severity = "success" THEN None ELSE Some(latest_status),
                 latest_detail |-> latest_detail,
                 trend |-> trend,
                 note |-> c.note]]

----------------------------------------------------------------------------
(* parse_measurement_series.  A text is a sequence of one-character strings. *)

Whitespace == {" ", "\t", "\n"}

Separators_NoHyphen == Whitespace \cup {",", ";", "/"}

(* the class [\s,;\-/,] *)
Separators == Whitespace \cup {",", ";", "-", "/"}

Digits == {"0", "1", "2", "3", "4", "5", "6", "7", "8", "9"}

DigitValue(ch) ==
    CASE ch = "0" -> 0 [] ch = "1" -> 1 [] ch = "2" -> 2 [] ch = "3" -> 3
      [] ch = "4" -> 4 [] ch = "5" -> 5 [] ch = "6" -> 6 [] ch = "7" -> 7
      [] ch = "8" -> 8 [] ch = "9" -> 9

RECURSIVE StripLeft(_, _)
StripLeft(s, chars) ==
    IF s # <<>> /\ s[1] \in chars THEN StripLeft(Tail(s), chars) ELSE s

RECURSIVE StripRight(_, _)
StripRight(s, chars) ==
    IF s # <<>> /\ s[Len(s)] \in chars
    THEN StripRight(SubSeq(s, 1, Len(s) - 1), chars) ELSE s

(* str.strip() and str.strip(chars) *)
Strip(s, chars) == StripRight(StripLeft(s, chars), chars)

RECURSIVE SplitFrom(_, _, _)
SplitFrom(s, i, piece) ==
    IF i > Len(s) THEN <<piece>>
    ELSE IF s[i] \in Separators
         THEN IF i > 1 /\ s[i - 1] \in Separators
              THEN SplitFrom(s, i + 1, piece)
              ELSE <<piece>> \o SplitFrom(s, i + 1, <<>>)
         ELSE SplitFrom(s, i + 1, Append(piece, s[i]))

(* re.split(r"[\s,;\-/,]+", s): the pieces between the runs of separators, the
   empty pieces at either end included *)
ReSplit(s) == SplitFrom(s, 1, <<>>)

(* the chunk without a leading sign *)
Unsigned(chunk) == IF chunk # <<>> /\ chunk[1] = "-" THEN Tail(chunk) ELSE chunk

(* float(chunk) accepts an optional sign and digits with at most one point and at
   least one digit; of the texts of the model, everything else raises ValueError *)
FloatOk(chunk) ==
    LET body == Unsigned(chunk)
    IN  /\ \A i \in 1..Len(body) : body[i] \in Digits \cup {"."}
        /\ Cardinality({i \in 1..Len(body) : body[i] = "."}) <= 1
        /\ \E i \in 1..Len(body) : body[i] \in Digits

RECURSIVE FloatFrom(_, _, _, _)
FloatFrom(chunk, i, num, den) ==
    IF i > Len(chunk) THEN [num |-> num, den |-> IF den = 0 THEN 1 ELSE den]
    ELSE IF chunk[i] = "." THEN FloatFrom(chunk, i + 1, num, 1)
    ELSE FloatFrom(chunk, i + 1, 10 * num + DigitValue(chunk[i]), 10 * den)

(* the number float(chunk) returns, as an exact rational *)
FloatOf(chunk) ==
    LET magnitude == FloatFrom(Unsigned(chunk), 1, 0, 0)
    IN  IF chunk[1] = "-" THEN [magnitude EXCEPT !.num = -@] ELSE magnitude

RECURSIVE ParseLoop_StopAtInvalid(_, _)
ParseLoop_StopAtInvalid(tokens, acc) ==
    IF tokens = <<>> THEN acc
    ELSE LET chunk == Strip(Strip(tokens[1], Whitespace), {","})
         IN  IF chunk = <<>> THEN ParseLoop_StopAtInvalid(Tail(tokens), acc)
             ELSE IF FloatOk(chunk)
             THEN ParseLoop_StopAtInvalid(Tail(tokens),
                      [acc EXCEPT !.values = Append(@, FloatOf(chunk))])
             ELSE [acc EXCEPT !.invalid = Append(@, chunk)]

RECURSIVE ParseLoop(_, _)
(* for token in tokens: strip, skip the empty chunk, try float *)
ParseLoop(tokens, acc) ==
    IF tokens = <<>> THEN acc
    ELSE LET chunk == Strip(Strip(tokens[1], Whitespace), {","})
         IN  IF chunk = <<>> THEN ParseLoop(Tail(tokens), acc)
             ELSE IF FloatOk(chunk)
             THEN ParseLoop(Tail(tokens), [acc EXCEPT !.values = Append(@, FloatOf(chunk))])
             ELSE ParseLoop(Tail(tokens), [acc EXCEPT !.invalid = Append(@, chunk)])

parse_measurement_series(raw) ==
    LET tokens == IF raw # <<>> THEN ReSplit(Strip(raw, Whitespace)) ELSE <<>>
    IN  ParseLoop(tokens, [values |-> <<>>, invalid |-> <<>>])

----------------------------------------------------------------------------
(* build_criteria_index.  A test is [id, name, criteria]; criteria is <<>> when the
   record has no such key, else <<list>>; a criterion is [id, label]. *)

EntryKey_TestId(test, crit) == test.id

(* index[criterion["id"]] *)
EntryKey(test, crit) == crit.id

(* {"test": test, "criterion": criterion} *)
Entry(test, crit) == [test |-> test, criterion |-> crit]

(* index[key] = entry: a later assignment replaces an earlier one *)
Store(index, key, entry) ==
    [k \in DOMAIN index \cup {key} |-> IF k = key THEN entry ELSE index[k]]

RECURSIVE IndexCriteria(_, _, _)
(* for criterion in test["criteria"] *)
IndexCriteria(index, test, crits) ==
    IF crits = <<>> THEN index
    ELSE IndexCriteria(Store(index, EntryKey(test, crits[1]), Entry(test, crits[1])),
                       test, Tail(crits))

RECURSIVE IndexTests(_, _)
(* for test in tests; test["criteria"] raises KeyError when the key is absent and
   the index built so far is lost with the frame *)
IndexTests(index, ts) ==
    IF ts = <<>> THEN [raised |-> "", key |-> "", index |-> Some(index)]
    ELSE IF ts[1].criteria = None
         THEN [raised |-> "KeyError", key |-> "criteria", index |-> None]
         ELSE IndexTests(IndexCriteria(index, ts[1], ts[1].criteria[1]), Tail(ts))

EmptyIndex == [k \in {} |-> None]

build_criteria_index(ts) == IndexTests(EmptyIndex, ts)

----------------------------------------------------------------------------
(* simulate_measurements and _stable_seed.

   The bounds of a criterion that is not percentage_change, and the values
   synthesized for it, are counted in units of 0.0001, the fourth decimal the
   function rounds to; the bounds of a percentage_change criterion are per cent
   and its values are exact rationals.  The generator is an oracle: a draw is any
   of JitterLevels, and a generator seeded with a seed that was used before
   repeats the draws made from that seed. *)

Scenarios == {"Healthy", "Drifting", "Out of tolerance"}

(* the printable characters, from code 32; codes 92 and 96 are spelled out *)
Ascii ==
    <<
      " ", "!", "\"", "#", "$", "%", "&", "'", "(", ")", "*", "+",
      ",", "-", ".", "/", "0", "1", "2", "3", "4", "5", "6", "7",
      "8", "9", ":", ";", "<", "=", ">", "?", "@", "A", "B", "C",
      "D", "E", "F", "G", "H", "I", "J", "K", "L", "M", "N", "O",
      "P", "Q", "R", "S", "T", "U", "V", "W", "X", "Y", "Z", "[",
      "backslash", "]", "^", "_", "backquote", "a", "b", "c", "d", "e", "f", "g",
      "h", "i", "j", "k", "l", "m", "n", "o", "p", "q", "r", "s",
      "t", "u", "v", "w", "x", "y", "z", "{", "|", "}", "~"
    >>

(* ord(char) *)
Codes ==
    [ch \in {Ascii[i] : i \in 1..Len(Ascii)} |->
        31 + (CHOOSE i \in 1..Len(Ascii) : Ascii[i] = ch)]

Ord(ch) == Codes[ch]

(* the characters of a scenario name *)
ScenarioChars(s) ==
    CASE s = "Healthy" -> <<"H", "e", "a", "l", "t", "h", "y">>
      [] s = "Drifting" -> <<"D", "r", "i", "f", "t", "i", "n", "g">>
      [] s = "Out of tolerance" -> <<"O", "u", "t", " ", "o", "f", " ", "t", "o", "l", "e", "r", "a", "n", "c", "e">>

DigitChar(d) == CHOOSE ch \in Digits : DigitValue(ch) = d

RECURSIVE Str(_)
(* str(n), n >= 0 *)
Str(n) == IF n < 10 THEN <<DigitChar(n)>> ELSE Append(Str(n \div 10), DigitChar(n % 10))

(* A seed is kept as two 16-bit halves, seed = hi * 2**16 + lo, so that the
   product seed * 31 stays within 32-bit arithmetic. *)
HalfWord == 65536
SeedFactor == 31

ZeroSeed == [hi |-> 0, lo |-> 0]
OneSeed == [hi |-> 0, lo |-> 1]

(* seed = (seed * 31 + ord(char)) % 2**32 *)
SeedStep(seed, ch) ==
    LET lo == seed.lo * SeedFactor + Ord(ch)
        hi == seed.hi * SeedFactor + lo \div HalfWord
    IN  [hi |-> hi % HalfWord, lo |-> lo % HalfWord]

RECURSIVE SeedChars(_, _)
(* for char in str(part) *)
SeedChars(seed, chars) ==
    IF chars = <<>> THEN seed ELSE SeedChars(SeedStep(seed, chars[1]), Tail(chars))

RECURSIVE SeedParts(_, _)
(* for part in parts *)
SeedParts(seed, parts) ==
    IF parts = <<>> THEN seed ELSE SeedParts(SeedChars(seed, parts[1]), Tail(parts))

_stable_seed_NoFallback(parts) == SeedParts(ZeroSeed, parts)

(* return seed or 1 *)
_stable_seed(parts) ==
    LET seed == SeedParts(ZeroSeed, parts)
    IN  IF seed = ZeroSeed THEN OneSeed ELSE seed

(* the generator: the seed it was created with and the draws made from it *)
NoRng == [seed |-> ZeroSeed, drawn |-> 0]

Random_Shared(seed, prev) == IF prev = NoRng THEN [seed |-> seed, drawn |-> 0] ELSE prev

(* rng = random.Random(seed): a new generator for every call *)
Random(seed, prev) == [seed |-> seed, drawn |-> 0]

(* rng.uniform(-0.05, 0.05), in thousandths *)
JitterLevels == {-49, 0, 49}
Uniform(level) == [num |-> level, den |-> 1000]

RECURSIVE GCD(_, _)
GCD(a, b) == IF b = 0 THEN a ELSE GCD(b, a % b)

Norm(r) ==
    LET g == GCD(IF r.num < 0 THEN -r.num ELSE r.num, r.den)
    IN  [num |-> r.num \div g, den |-> r.den \div g]

RatAdd(r, s) == Norm([num |-> r.num * s.den + s.num * r.den, den |-> r.den * s.den])
RatSub(r, s) == Norm([num |-> r.num * s.den - s.num * r.den, den |-> r.den * s.den])
(* the product, with the common factors cancelled before multiplying *)
RatMul(r, s) ==
    LET g1 == GCD(IF r.num < 0 THEN -r.num ELSE r.num, s.den)
        g2 == GCD(IF s.num < 0 THEN -s.num ELSE s.num, r.den)
    IN  Norm([num |-> (r.num \div g1) * (s.num \div g2),
              den |-> (r.den \div g2) * (s.den \div g1)])
RatMax(r, s) == IF r.num * s.den >= s.num * r.den THEN r ELSE s

(* round(x), x >= 0, ties to even *)
Round(r) ==
    LET n == 2 * r.num + r.den
        d == 2 * r.den
        q == n \div d
    IN  IF n % d = 0 /\ q % 2 = 1 THEN q - 1 ELSE q

(* a or b: a number that is absent or zero is skipped *)
Truthy(o) == o # None /\ o[1] # 0

(* the scenario tables, in hundredths of the limit *)
PctStart(s) == CASE s = "Healthy" -> 25 [] s = "Drifting" -> 65 [] s = "Out of tolerance" -> 95
PctEnd(s) == CASE s = "Healthy" -> 45 [] s = "Drifting" -> 95 [] s = "Out of tolerance" -> 130
MaxStart(s) == CASE s = "Healthy" -> 55 [] s = "Drifting" -> 75 [] s = "Out of tolerance" -> 90
MaxEnd(s) == CASE s = "Healthy" -> 70 [] s = "Drifting" -> 98 [] s = "Out of tolerance" -> 120
MinStart(s) == CASE s = "Healthy" -> 135 [] s = "Drifting" -> 120 [] s = "Out of tolerance" -> 105
MinEnd(s) == CASE s = "Healthy" -> 125 [] s = "Drifting" -> 95 [] s = "Out of tolerance" -> 75
FreeStart(s) == IF s = "Healthy" THEN 100 ELSE 120
FreeEnd(s) == IF s = "Healthy" THEN 105 ELSE 135

Hundredths(limit, k) == RatMul(Rat(limit), Norm([num |-> k, den |-> 100]))

(* the default limit 10.0 of a percentage_change criterion without bounds *)
DefaultLimitPct == 10

(* 1.0 in units of 0.0001; the floor 0.0001 is one unit *)
UnitsPerOne == 10000
FloorUnits == 1

(* span = max(count - 1, 1) *)
Span(n) == IF n - 1 > 1 THEN n - 1 ELSE 1

(* start + (end - start) * (idx / span) *)
Blend(start, end, idx, span) ==
    RatAdd(start, RatMul(RatSub(end, start), Norm([num |-> idx, den |-> span])))

(* the percentage_change branch *)
PercentValues(c, s, n, draws) ==
    LET limit_pct == IF Truthy(c.maximum) THEN c.maximum[1]
                     ELSE IF Truthy(c.investigate_above) THEN c.investigate_above[1]
                     ELSE IF Truthy(c.investigate_below) THEN c.investigate_below[1]
                     ELSE DefaultLimitPct
        start_pct == Hundredths(limit_pct, PctStart(s))
        end_pct == Hundredths(limit_pct, PctEnd(s))
        pct(idx) == RatMax(RatAdd(Blend(start_pct, end_pct, idx, Span(n)),
                                  RatMul(Uniform(draws[idx + 1]), Rat(limit_pct))),
                           Rat(0))
    IN  [i \in 1..n |->
            RatMul(Rat(SimBaseline),
                   RatAdd(Rat(1), RatMul(pct(i - 1), [num |-> 1, den |-> PercentScale])))]

(* max(target + jitter, 0.0001) *)
FloorValue(r) == RatMax(r, Rat(FloorUnits))

(* the branch of every other evaluation mode *)
BoundValues(c, s, n, draws) ==
    LET limit_max == c.maximum
        limit_min == c.minimum
        start == IF limit_max # None THEN Hundredths(limit_max[1], MaxStart(s))
                 ELSE IF limit_min # None THEN Hundredths(limit_min[1], MinStart(s))
                 ELSE Hundredths(UnitsPerOne, FreeStart(s))
        end == IF limit_max # None THEN Hundredths(limit_max[1], MaxEnd(s))
               ELSE IF limit_min # None THEN Hundredths(limit_min[1], MinEnd(s))
               ELSE Hundredths(UnitsPerOne, FreeEnd(s))
        target(idx) == Blend(start, end, idx, Span(n))
        jitter_basis(idx) == IF Truthy(limit_max) THEN Rat(limit_max[1])
                             ELSE IF Truthy(limit_min) THEN Rat(limit_min[1])
                             ELSE IF target(idx).num # 0 THEN target(idx)
                             ELSE Rat(UnitsPerOne)
        jitter(idx) == RatMul(Uniform(draws[idx + 1]), jitter_basis(idx))
    IN  [i \in 1..n |-> Rat(Round(FloorValue(RatAdd(target(i - 1), jitter(i - 1)))))]

SimulatedBaseline_Always(eval_type) == Some(SimBaseline)

(* baseline = None; if eval_type == "percentage_change": baseline = 100.0 *)
SimulatedBaseline(eval_type) ==
    IF eval_type = "percentage_change" THEN Some(SimBaseline) ELSE None

(* the values and the baseline returned when the generator makes the given draws *)
simulate_measurements(c, s, n, draws) ==
    LET eval_type == Get(c.evaluation_type, "absolute")
    IN  [raised |-> "",
         values |-> IF eval_type = "percentage_change" THEN PercentValues(c, s, n, draws)
                    ELSE BoundValues(c, s, n, draws),
         baseline |-> SimulatedBaseline(eval_type)]

----------------------------------------------------------------------------
(* _suggest_seed_values and format_series.  The values formatted are exact
   rationals in the units of the measurement.  A float holds a decimal exactly
   only when the decimal is a dyadic rational, so a value that lies in decimal
   half way between two thousandths is rounded to the even one when it is dyadic
   and to either one, as its float happens to lie, when it is not. *)

(* count=3 of _suggest_seed_values *)
SeedCount == 3

(* the values of a criterion's series in the units of the measurement *)
InUnits(c, values) ==
    IF Get(c.evaluation_type, "absolute") = "percentage_change" THEN values
    ELSE [i \in 1..Len(values) |-> RatMul(values[i], [num |-> 1, den |-> UnitsPerOne])]

(* simulate_measurements(criterion, scenario="Healthy", count=3)[0] *)
_suggest_seed_values(c, draws) ==
    InUnits(c, simulate_measurements(c, "Healthy", SeedCount, draws).values)

RECURSIVE PowerOfTwo(_)
PowerOfTwo(n) == n = 1 \/ (n % 2 = 0 /\ PowerOfTwo(n \div 2))

(* the float of the value is the value itself *)
Dyadic(r) == PowerOfTwo(Norm(r).den)

(* the value lies half way between two thousandths *)
HalfWay(r) == RatMul(RatAbs(r), Rat(1000)).den = 2

Thousandths_Truncated(r, up) ==
    LET x == RatMul(RatAbs(r), Rat(1000)) IN x.num \div x.den

(* the digits of f"{value:.3f}" as a count of thousandths; up tells on which side
   of the half way point the float of a value that is not dyadic lies *)
Thousandths(r, up) ==
    LET x == RatMul(RatAbs(r), Rat(1000))
    IN  IF HalfWay(r) /\ ~Dyadic(r)
        THEN IF up THEN x.num \div x.den + 1 ELSE x.num \div x.den
        ELSE Round(x)

(* f"{value:.3f}" *)
Fixed3(r, up) ==
    LET t == Thousandths(r, up)
        k == t % 1000
    IN  (IF r.num < 0 THEN <<"-">> ELSE <<>>)
            \o Str(t \div 1000) \o <<".">>
            \o <<DigitChar(k \div 100), DigitChar((k \div 10) % 10), DigitChar(k % 10)>>

RECURSIVE JoinFrom(_, _, _)
JoinFrom(values, ups, i) ==
    IF i > Len(values) THEN <<>>
    ELSE (IF i > 1 THEN <<",", " ">> ELSE <<>>)
            \o Fixed3(values[i], ups[i]) \o JoinFrom(values, ups, i + 1)

(* ", ".join(f"{value:.3f}" for value in values) *)
format_series(values, ups) == JoinFrom(values, ups, 1)

----------------------------------------------------------------------------
(* recommend_dc_test_voltage and describe_test_voltage_application.  Voltages are
   counted in tenths of a kilovolt; a row of the table is
   [max_rating_kv, dc_test_kv]. *)

(* kv_recommendations of the insulation resistance test *)
BuiltInTable ==
    << [max_rating_kv |-> 10, dc_test_kv |-> 10],
       [max_rating_kv |-> 50, dc_test_kv |-> 25],
       [max_rating_kv |-> 150, dc_test_kv |-> 50],
       [max_rating_kv |-> 345, dc_test_kv |-> 100],
       [max_rating_kv |-> 690, dc_test_kv |-> 150],
       [max_rating_kv |-> 1380, dc_test_kv |-> 250] >>

Fallback_First(table) == table[1].dc_test_kv

(* return table[-1]["dc_test_kv"] *)
Fallback(table) == table[Len(table)].dc_test_kv

RECURSIVE ScanRows(_, _, _)
(* for row in table: if nameplate_kv <= row["max_rating_kv"]: return ... *)
ScanRows(nameplate_kv, table, i) ==
    IF i > Len(table) THEN Fallback(table)
    ELSE IF nameplate_kv <= table[i].max_rating_kv THEN table[i].dc_test_kv
    ELSE ScanRows(nameplate_kv, table, i + 1)

recommend_dc_test_voltage(nameplate_kv, table) ==
    IF table = <<>> THEN 0 ELSE ScanRows(nameplate_kv, table, 1)

EnterNameplate == "Enter a nameplate voltage to receive test-stress guidance."
BelowRecommendation == "Applied DC voltage is significantly below the typical ANSI/NETA recommendation"
ExceedsStress == "Applied DC voltage exceeds the usual stress level."
AlignsWithGuidance == "Test voltage aligns with ANSI/NETA guidance"

(* if recommended_kv <= 0 *)
NoRecommendation(recommended_kv) == recommended_kv <= 0

(* 0.85 * recommended_kv and 1.2 * recommended_kv, compared in hundredths *)
describe_test_voltage_application(applied_kv, recommended_kv) ==
    IF NoRecommendation(recommended_kv)
    THEN [severity |-> "info", message |-> EnterNameplate]
    ELSE IF 100 * applied_kv < 85 * recommended_kv
    THEN [severity |-> "warning", message |-> BelowRecommendation]
    ELSE IF 100 * applied_kv > 120 * recommended_kv
    THEN [severity |-> "warning", message |-> ExceedsStress]
    ELSE [severity |-> "info", message |-> AlignsWithGuidance]

----------------------------------------------------------------------------
(* _build_test_library: the tests with their criteria.  Of a test the model keeps
   id, name and criteria; of a criterion id, evaluation_type, unit and the four
   bounds, counted as simulate_measurements counts them: in units of 0.0001, and
   in per cent for a percentage_change criterion. *)

TestLibrary ==
    <<
      [id |-> "visual_inspection", name |-> "Visual & Mechanical Inspection",
       criteria |-> Some(<<
          [id |-> <<"v", "i", "s", "u", "a", "l", "_", "n", "o", "_", "d", "a", "m", "a", "g", "e">>,
           evaluation_type |-> Some("qualitative"), unit |-> Some("n/a"), note |-> None,
           minimum |-> None, investigate_below |-> None,
           investigate_above |-> None, maximum |-> None] >>)],
      [id |-> "insulation_resistance", name |-> "Insulation Resistance (Megohmmeter)",
       criteria |-> Some(<<
          [id |-> <<"i", "r", "_", "m", "v", "_", "c", "a", "b", "l", "e">>,
           evaluation_type |-> Some("absolute"), unit |-> Some("Mohm"), note |-> None,
           minimum |-> Some(1000000), investigate_below |-> Some(2000000),
           investigate_above |-> None, maximum |-> None],
          [id |-> <<"i", "r", "_", "m", "o", "t", "o", "r", "_", "p", "i">>,
           evaluation_type |-> Some("ratio"), unit |-> Some("ratio"), note |-> None,
           minimum |-> Some(20000), investigate_below |-> Some(30000),
           investigate_above |-> None, maximum |-> None],
          [id |-> <<"i", "r", "_", "s", "w", "i", "t", "c", "h", "g", "e", "a", "r", "_", "b", "u", "s">>,
           evaluation_type |-> Some("absolute"), unit |-> Some("Mohm"), note |-> None,
           minimum |-> Some(2000000), investigate_below |-> Some(4000000),
           investigate_above |-> None, maximum |-> None],
          [id |-> <<"i", "r", "_", "g", "s", "u", "_", "w", "i", "n", "d", "i", "n", "g">>,
           evaluation_type |-> Some("absolute"), unit |-> Some("Mohm"), note |-> None,
           minimum |-> Some(10000000), investigate_below |-> Some(15000000),
           investigate_above |-> None, maximum |-> None] >>)],
      [id |-> "contact_resistance", name |-> "Contact Resistance (Micro-ohm)",
       criteria |-> Some(<<
          [id |-> <<"c", "r", "_", "s", "w", "i", "t", "c", "h", "g", "e", "a", "r">>,
           evaluation_type |-> Some("absolute"), unit |-> Some("uohm"), note |-> None,
           minimum |-> None, investigate_below |-> None,
           investigate_above |-> Some(750000), maximum |-> Some(1000000)],
          [id |-> <<"c", "r", "_", "p", "c", "t", "_", "d", "e", "l", "t", "a">>,
           evaluation_type |-> Some("percentage_change"), unit |-> Some("%"), note |-> None,
           minimum |-> None, investigate_below |-> None,
           investigate_above |-> Some(30), maximum |-> Some(50)] >>)],
      [id |-> "power_factor", name |-> "Insulation Power Factor / Tan Delta",
       criteria |-> Some(<<
          [id |-> <<"p", "f", "_", "t", "r", "a", "n", "s", "f", "o", "r", "m", "e", "r">>,
           evaluation_type |-> Some("absolute"), unit |-> Some("%"), note |-> None,
           minimum |-> None, investigate_below |-> None,
           investigate_above |-> Some(5000), maximum |-> Some(10000)],
          [id |-> <<"p", "f", "_", "b", "u", "s", "h", "i", "n", "g">>,
           evaluation_type |-> Some("percentage_change"), unit |-> Some("%"), note |-> None,
           minimum |-> None, investigate_below |-> None,
           investigate_above |-> Some(25), maximum |-> Some(50)] >>)],
      [id |-> "breaker_timing", name |-> "Circuit Breaker Timing & Motion",
       criteria |-> Some(<<
          [id |-> <<"c", "b", "_", "o", "p", "e", "n", "_", "t", "i", "m", "e">>,
           evaluation_type |-> Some("absolute"), unit |-> Some("ms"), note |-> None,
           minimum |-> None, investigate_below |-> None,
           investigate_above |-> Some(700000), maximum |-> Some(800000)],
          [id |-> <<"c", "b", "_", "p", "o", "l", "e", "_", "s", "y", "n", "c">>,
           evaluation_type |-> Some("absolute"), unit |-> Some("ms"), note |-> None,
           minimum |-> None, investigate_below |-> None,
           investigate_above |-> Some(10000), maximum |-> Some(20000)] >>)],
      [id |-> "transformer_ttr", name |-> "Transformer Turns Ratio (TTR)",
       criteria |-> Some(<<
          [id |-> <<"t", "t", "r", "_", "r", "a", "t", "i", "o", "_", "d", "e", "v">>,
           evaluation_type |-> Some("absolute"), unit |-> Some("%"), note |-> None,
           minimum |-> None, investigate_below |-> None,
           investigate_above |-> Some(3000), maximum |-> Some(5000)],
          [id |-> <<"t", "t", "r", "_", "p", "h", "a", "s", "e", "_", "s", "h", "i", "f", "t">>,
           evaluation_type |-> Some("absolute"), unit |-> Some("deg"), note |-> None,
           minimum |-> None, investigate_below |-> None,
           investigate_above |-> Some(2500), maximum |-> Some(5000)] >>)],
      [id |-> "winding_resistance", name |-> "Transformer Winding Resistance",
       criteria |-> Some(<<
          [id |-> <<"w", "r", "_", "p", "c", "t", "_", "d", "e", "v">>,
           evaluation_type |-> Some("percentage_change"), unit |-> Some("%"), note |-> None,
           minimum |-> None, investigate_below |-> None,
           investigate_above |-> Some(5), maximum |-> Some(10)] >>)],
      [id |-> "transformer_dga", name |-> "Transformer Dissolved Gas Analysis",
       criteria |-> Some(<<
          [id |-> <<"d", "g", "a", "_", "t", "d", "c", "g">>,
           evaluation_type |-> Some("absolute"), unit |-> Some("ppm"), note |-> None,
           minimum |-> None, investigate_below |-> None,
           investigate_above |-> Some(36000000), maximum |-> Some(72000000)] >>)],
      [id |-> "breaker_primary", name |-> "Circuit Breaker Primary Injection",
       criteria |-> Some(<<
          [id |-> <<"b", "r", "e", "a", "k", "e", "r", "_", "p", "i", "c", "k", "u", "p", "_", "d", "e", "l", "t", "a">>,
           evaluation_type |-> Some("percentage_change"), unit |-> Some("%"), note |-> None,
           minimum |-> None, investigate_below |-> None,
           investigate_above |-> Some(10), maximum |-> Some(15)],
          [id |-> <<"b", "r", "e", "a", "k", "e", "r", "_", "t", "r", "i", "p", "_", "t", "i", "m", "e">>,
           evaluation_type |-> Some("absolute"), unit |-> Some("ms"), note |-> None,
           minimum |-> None, investigate_below |-> None,
           investigate_above |-> Some(1100000), maximum |-> Some(1300000)] >>)],
      [id |-> "switchgear_hipot", name |-> "Switchgear AC Withstand / Hi-Pot",
       criteria |-> Some(<<
          [id |-> <<"s", "w", "i", "t", "c", "h", "g", "e", "a", "r", "_", "a", "c", "_", "w", "i", "t", "h", "s", "t", "a", "n", "d">>,
           evaluation_type |-> Some("absolute"), unit |-> Some("kV rms"), note |-> None,
           minimum |-> Some(270000), investigate_below |-> Some(240000),
           investigate_above |-> None, maximum |-> None] >>)]
    >>

_build_test_library == TestLibrary

----------------------------------------------------------------------------
(* render_voltage_context and render_result_explorer.  A pass returns the widgets
   it rendered, in order, the functions it called, and the series and baseline it
   worked on.  Of the selected test the pass reads kv_recommendations and
   result_implications, the latter kept as the set of its keys.  A widget the
   user left alone returns its default.  The series of a pass is counted in the
   units of the criterion's bounds, 0.0001, and that of a percentage_change
   criterion, whose statistic has no unit, in whole units. *)

(* IR_DEFAULT_RATING_KV, in tenths of a kilovolt *)
IR_DEFAULT_RATING_KV == 345

(* the trend tolerance 1e-9 goes 100000 times into 0.0001 *)
TolerancesPerUnit == 100000
TolerancesPerOne == 1000000000

GuardMessage == "Provide at least one numeric value to generate insights."

Event(widget, kind, content) == [widget |-> widget, kind |-> kind, content |-> content]

(* mapping.get(status) or mapping.get("default") *)
describe_result_meaning(status, test) ==
    IF status \in test.result_implications THEN Some(status)
    ELSE IF "default" \in test.result_implications THEN Some("default")
    ELSE None

(* lines 574-588: the voltage applied, judged against the recommendation *)
Applied(nameplate, recommended, applied) ==
    [context |-> Some([nameplate_kv |-> nameplate, recommended_kv |-> recommended,
                       applied_kv |-> applied]),
     ui |-> << Event("markdown", "voltage", "Test voltage context"),
               Event("caption", "voltage", recommended),
               Event(IF describe_test_voltage_application(applied, recommended).severity
                          = "warning"
                     THEN "warning" ELSE "info",
                     "voltage",
                     describe_test_voltage_application(applied, recommended).message) >>,
     called |-> <<"recommend_dc_test_voltage", "describe_test_voltage_application">>]

(* lines 559-573: the recommendation for the nameplate voltage; the applied
   voltage defaults to it, or to the first row's when it is zero *)
Rated(table, in, nameplate, recommended) ==
    Applied(nameplate, recommended,
            Get(in.applied_kv,
                IF recommended # 0 THEN recommended ELSE table[1].dc_test_kv))

render_voltage_context(test, in) ==
    LET table == test.kv_recommendations
    IN  IF table = None \/ table[1] = <<>>
        THEN [context |-> None, ui |-> <<>>, called |-> <<>>]
        ELSE LET last_rating == table[1][Len(table[1])].max_rating_kv
                 nameplate == Get(in.nameplate_kv,
                                  IF IR_DEFAULT_RATING_KV < last_rating
                                  THEN IR_DEFAULT_RATING_KV ELSE last_rating)
             IN  Rated(table[1], in, nameplate,
                       recommend_dc_test_voltage(nameplate, table[1]))

(* criterion.get("evaluation_type") == "percentage_change" *)
PercentageChange(c) == c.evaluation_type = Some("percentage_change")

(* a measurement as a count of the units of the pass *)
Whole(c, r) ==
    IF PercentageChange(c) THEN r.num \div r.den
    ELSE RatMul(r, Rat(UnitsPerOne)).num

(* the series in units of the trend tolerance *)
InTolerances(c, ms) ==
    [i \in 1..Len(ms) |->
        ms[i] * (IF PercentageChange(c) THEN TolerancesPerOne ELSE TolerancesPerUnit)]

(* lines 966-974: the series parsed from the text and the baseline entered *)
Entered(c, in, parsed) ==
    [measurements |-> [i \in 1..Len(parsed.values) |-> Whole(c, parsed.values[i])],
     baseline |-> IF PercentageChange(c) THEN Some(in.baseline_value) ELSE None,
     ui |-> IF parsed.invalid # <<>>
            THEN <<Event("warning", "invalid", parsed.invalid)>> ELSE <<>>,
     called |-> <<"_suggest_seed_values", "format_series", "parse_measurement_series">>]

(* the branch of manual entry: the text area holds the text typed, or the
   formatted seed values when nothing was typed *)
ManualEntry(c, in, draws, ups) ==
    Entered(c, in,
            parse_measurement_series(
                Get(in.typed, format_series(_suggest_seed_values(c, draws), ups))))

(* lines 991-996: the simulated series shown as text, and its baseline *)
Synthesized(c, ups, sim) ==
    [measurements |-> [i \in 1..Len(sim.values) |-> sim.values[i].num],
     baseline |-> sim.baseline,
     ui |-> << Event("caption", "simulated", "Simulated measurement set (latest last)"),
               Event("code", "simulated", format_series(InUnits(c, sim.values), ups)) >>
            \o (IF sim.baseline # None
                THEN <<Event("caption", "baseline", sim.baseline[1])>> ELSE <<>>),
     called |-> <<"simulate_measurements", "format_series">>]

(* the branch of a simulated scenario *)
SimulateScenario(c, in, draws, ups) ==
    Synthesized(c, ups, simulate_measurements(c, in.scenario, in.sample_count, draws))

EmptySeries_Never(ms) == FALSE

(* if not measurements *)
EmptySeries(ms) == ms = <<>>

Renderer_Warning(severity) == "warning"

(* {"error": st.error, "warning": st.warning, "success": st.success}[severity] *)
Renderer(severity) ==
    CASE severity = "error" -> "error"
      [] severity = "warning" -> "warning"
      [] severity = "success" -> "success"

(* the chart plots the percent change when there is a baseline to compute it *)
ChartData(c, ms, b) ==
    IF PercentageChange(c) /\ ~BaselineMissing(b)
    THEN [i \in 1..Len(ms) |-> PercentChange(ms[i], b[1])]
    ELSE ms

(* what a pass leaves: the error raised, the widgets, the calls, and the series *)
Pass(series, raised, ui, fns) ==
    [raised |-> raised, ui |-> ui, called |-> fns,
     measurements |-> series.measurements, baseline |-> series.baseline]

(* st.info of the meaning, when there is one *)
Meaning(meaning) ==
    IF meaning # None THEN <<Event("info", "meaning", meaning[1])>> ELSE <<>>

(* lines 1035-1050: the summary through its renderer, the meaning of the latest
   status and the note on the voltage *)
Conclude(test, voltage, series, shown, evaluated, latest_status, summarized) ==
    IF summarized.raised # "" THEN Pass(series, summarized.raised, shown, evaluated)
    ELSE Pass(series, "",
              shown
                \o <<Event(Renderer(summarized.severity), "summary", summarized.summary)>>
                \o Meaning(describe_result_meaning(latest_status, test))
                \o (IF voltage.context # None
                    THEN <<Event("caption", "voltage note", "")>> ELSE <<>>),
              Append(evaluated, "describe_result_meaning"))

(* lines 1002-1037: the metric, the table, the chart and the summary of the
   assessments *)
Tabulate(c, test, voltage, series, head, called, assessments) ==
    LET ms == series.measurements
        statuses_ == [i \in 1..Len(ms) |-> assessments[i].status]
        details_ == [i \in 1..Len(ms) |-> assessments[i].detail]
    IN  Conclude(test, voltage, series,
                 head \o
                   << Event("metric", "latest",
                            [value |-> Latest(ms),
                             delta |-> IF Len(ms) > 1 THEN Some(Latest(ms) - ms[1])
                                       ELSE None]),
                      Event("dataframe", "table",
                            [Measurement |-> ms, Assessment |-> statuses_,
                             Insight |-> details_]),
                      Event("line_chart", "chart", ChartData(c, ms, series.baseline)),
                      Event("caption", "chart", "Y-axis") >>,
                 called \o [i \in 1..Len(ms) |-> "evaluate_measurement"]
                        \o <<"summarize_series_outcome">>,
                 Latest(statuses_),
                 summarize_series_outcome(InTolerances(c, ms), statuses_, details_, c))

(* lines 998-1004: the guard on the empty series, then the assessments *)
Guarded(c, test, voltage, series, head, called) ==
    IF EmptySeries(series.measurements)
    THEN Pass(series, "", Append(head, Event("warning", "guard", GuardMessage)), called)
    ELSE IF series.measurements = <<>>
    (* measurements[-1] of an empty list; the guard keeps the pass from it *)
    THEN Pass(series, "IndexError", head, called)
    ELSE Tabulate(c, test, voltage, series, head, called,
                  [i \in 1..Len(series.measurements) |->
                      evaluate_measurement(Some(series.measurements[i]), c,
                                           series.baseline)])

(* lines 933-996: the voltage context and the series of the data source *)
Sourced(c, test, voltage, series) ==
    Guarded(c, test, voltage, series,
            <<Event("subheader", "title", "Result explorer")>> \o voltage.ui \o series.ui,
            voltage.called \o series.called)

render_result_explorer(c, test, in, draws, ups) ==
    Sourced(c, test, render_voltage_context(test, in),
            IF in.data_mode = "Manual entry" THEN ManualEntry(c, in, draws, ups)
            ELSE SimulateScenario(c, in, draws, ups))

(* lines 901-931: the card of the result, its meaning and the note on the voltage *)
Carded(c, test, voltage, returned) ==
    [raised |-> "",
     ui |-> <<Event("subheader", "title", "Pass / Investigate / Fail calculator")>>
              \o voltage.ui
              \o (IF PercentageChange(c) THEN <<>>
                  ELSE IF c.evaluation_type = Some("ratio")
                  THEN <<Event("info", "ratio", "Polarization Index ratios already normalize")>>
                  ELSE <<Event("write", "note", c.note)>>)
              \o <<Event("markdown", "card", returned)>>
              \o Meaning(describe_result_meaning(returned.status, test))
              \o (IF voltage.context # None
                  THEN <<Event("caption", "voltage note", "")>> ELSE <<>>),
     called |-> voltage.called \o <<"evaluate_measurement", "describe_result_meaning">>]

render_pass_fail_calculator(c, test, in) ==
    Carded(c, test, render_voltage_context(test, in),
           evaluate_measurement(Some(in.measured_value), c,
                                IF PercentageChange(c) THEN Some(in.baseline_value)
                                ELSE None))

----------------------------------------------------------------------------
(* A session: the registry main builds, and the calls made on its records.  The
   index entries are the records of the library themselves, not copies, so a call
   that wrote to the record it was handed would change the library and the index
   alike. *)

SessionCalls ==
    {"evaluate_measurement", "simulate_measurements", "summarize_series_outcome",
     "render_result_explorer", "render_pass_fail_calculator"}

Handed_Annotated(call, record) ==
    IF call = "summarize_series_outcome" THEN [record EXCEPT !.note = Some("seen")]
    ELSE record

(* the criterion a call was handed, as the call leaves it: no statement of the
   five assigns to a key of the record, deletes one, or changes a list in it *)
Handed(call, record) == record

(* the library with the criterion in the given slot replaced *)
WithCriterion(ts, slot, record) ==
    [ts EXCEPT ![slot[1]].criteria = Some([@[1] EXCEPT ![slot[2]] = record])]

(* tests = _build_test_library(); criteria_index = build_criteria_index(tests) *)
Registry(ts) == [tests |-> ts, index |-> build_criteria_index(ts).index[1]]

----------------------------------------------------------------------------
(* Inputs *)

OptBounds == {None} \cup {Some(x) : x \in 0..MaxBound}
OptModes == {None} \cup {Some(m) : m \in Modes}
OptBaselines == {None, Some(0), Some(SimBaseline), Some(-SimBaseline)}

(* readings around zero and, for a non-zero baseline, readings around it *)
ValuesFor(b) ==
    {None} \cup {Some(x) : x \in -1..MaxValue}
           \cup (IF b = None \/ b[1] = 0 THEN {}
                 ELSE {Some(b[1] + d) : d \in -MaxDelta..MaxDelta})

Criteria ==
    [evaluation_type : OptModes, unit : {Some("kV")}, note : {None},
     minimum : OptBounds, maximum : OptBounds,
     investigate_below : OptBounds, investigate_above : OptBounds]

NoCriterion ==
    [evaluation_type |-> None, unit |-> None, note |-> None,
     minimum |-> None, maximum |-> None,
     investigate_below |-> None, investigate_above |-> None]

NoResult == [status |-> "", detail |-> None]
NoOutcome == [raised |-> "none"]

SeqsOf(S, n) == [1..n -> S]

(* no simulate_measurements call *)
NoSimulation == scenario = "" /\ count = 0 /\ inputs = <<>>

InitEvaluate ==
    /\ op = "evaluate_measurement"
    /\ criterion \in Criteria
    /\ baseline \in OptBaselines
    /\ value \in ValuesFor(baseline)
    /\ measurements = <<>> /\ statuses = <<>> /\ details = <<>>
    /\ raw_values = <<>> /\ tests = <<>>
    /\ NoSimulation

InitSummarize ==
    /\ op = "summarize_series_outcome"
    /\ \E n \in 0..MaxLen :
         /\ measurements \in SeqsOf(0..MaxMeas, n)
         /\ statuses \in SeqsOf(Statuses, n)
         /\ details = [i \in 1..n |-> i]
    /\ criterion \in {[NoCriterion EXCEPT !.note = x] : x \in {None, Some("note")}}
    /\ value = None /\ baseline = None
    /\ raw_values = <<>> /\ tests = <<>>
    /\ NoSimulation

TextChars == {"1", ".", "a", ",", " ", "-"}

InitParse ==
    /\ op = "parse_measurement_series"
    /\ \E n \in 0..MaxText : raw_values \in SeqsOf(TextChars, n)
    /\ criterion = NoCriterion
    /\ value = None /\ baseline = None
    /\ measurements = <<>> /\ statuses = <<>> /\ details = <<>>
    /\ tests = <<>>
    /\ NoSimulation

TestIds == {"t1", "t2"}
CritIds == {"c1", "c2", "c3"}

CriteriaLists ==
    {None} \cup
    UNION {{Some([j \in 1..n |-> [id |-> f[j], label |-> j]]) : f \in [1..n -> CritIds]}
           : n \in 0..MaxCrit}

TestLists ==
    UNION {{[t \in 1..n |-> [id |-> ids[t], name |-> t, criteria |-> cl[t]]]
            : ids \in [1..n -> TestIds], cl \in [1..n -> CriteriaLists]}
           : n \in 0..Cardinality(TestIds)}

InitBuild ==
    /\ op = "build_criteria_index"
    /\ tests \in TestLists
    /\ criterion = NoCriterion
    /\ value = None /\ baseline = None
    /\ measurements = <<>> /\ statuses = <<>> /\ details = <<>>
    /\ raw_values = <<>>
    /\ NoSimulation

SimIds == {<<"c", "1">>, <<"c", "2">>}
OptLimits == {None} \cup {Some(x) : x \in 0..MaxLimit}

(* criteria of the modes that are not percentage_change: bounds in units of 0.0001 *)
BoundCriteria ==
    [id : {<<"c", "1">>}, evaluation_type : OptModes \ {Some("percentage_change")},
     unit : {Some("kV")}, note : {None},
     minimum : OptLimits, maximum : OptLimits,
     investigate_below : {None}, investigate_above : {None}]

(* percentage_change criteria: bounds in per cent *)
PercentCriteria ==
    [id : {<<"c", "1">>}, evaluation_type : {Some("percentage_change")},
     unit : {None}, note : {None},
     minimum : {None}, maximum : {None, Some(0), Some(MaxLimit)},
     investigate_below : {None, Some(1)}, investigate_above : {None, Some(2)}]

SimCriteria == BoundCriteria \cup PercentCriteria

(* the calls of a series: two criteria that differ in the identifier only *)
RepeatCriteria ==
    {[c EXCEPT !.id = i] :
        i \in SimIds,
        c \in {b \in BoundCriteria : b.evaluation_type = None /\ b.maximum = Some(MaxLimit)
                                       /\ b.minimum = None}}

RepeatCounts == {1, 2}

InitSimulate ==
    /\ op = "simulate_measurements"
    /\ criterion \in SimCriteria
    /\ scenario \in Scenarios
    /\ count \in 0..MaxCount
    /\ value = None /\ baseline = None
    /\ measurements = <<>> /\ statuses = <<>> /\ details = <<>>
    /\ raw_values = <<>> /\ tests = <<>>
    /\ inputs = <<>>

(* a series of simulate_measurements calls, as the reruns of the explorer make *)
InitRepeat ==
    /\ op = "simulate_measurements repeated"
    /\ criterion \in RepeatCriteria
    /\ scenario \in Scenarios
    /\ count \in RepeatCounts
    /\ value = None /\ baseline = None
    /\ measurements = <<>> /\ statuses = <<>> /\ details = <<>>
    /\ raw_values = <<>> /\ tests = <<>>
    /\ inputs = <<>>

(* the families below keep their arguments in the record inputs *)
InputsOnly ==
    /\ criterion = NoCriterion
    /\ value = None /\ baseline = None
    /\ measurements = <<>> /\ statuses = <<>> /\ details = <<>>
    /\ raw_values = <<>> /\ tests = <<>>
    /\ scenario = "" /\ count = 0

(* the characters of the parts hashed *)
PartChars == {"a", "~"}

(* a text as one part and as two parts *)
PartsOf(chars) ==
    {<<chars>>} \cup {<<SubSeq(chars, 1, k), SubSeq(chars, k + 1, Len(chars))>>
                        : k \in 0..Len(chars)}

(* up to two parts of MaxSeedLen characters together *)
PartLists ==
    {<<>>} \cup UNION {PartsOf(chars) : chars \in UNION {SeqsOf(PartChars, n)
                                                          : n \in 0..MaxSeedLen}}

Rows == [max_rating_kv : 0..MaxKv, dc_test_kv : 0..MaxKv]
Tables == UNION {SeqsOf(Rows, n) : n \in 0..MaxRows}

(* the ratings of the built-in table and their neighbours *)
BuiltInRatings ==
    UNION {{BuiltInTable[i].max_rating_kv + d : d \in -1..1} : i \in 1..Len(BuiltInTable)}

Nameplates(table) == IF table = BuiltInTable THEN BuiltInRatings ELSE 0..(MaxKv + 1)

InitRecommend ==
    /\ op = "recommend_dc_test_voltage"
    /\ \E table \in Tables \cup {BuiltInTable} :
          inputs \in [nameplate_kv : Nameplates(table), table : {table}]
    /\ InputsOnly

(* no recommendation, a small one, and the recommendations of the built-in table *)
RecommendedKvs ==
    -1..MaxKv \cup {BuiltInTable[i].dc_test_kv : i \in 1..Len(BuiltInTable)}

(* applied voltages around 0.85 and 1.2 of the recommendation *)
AppliedKvs(recommended_kv) ==
    0..MaxKv \cup {(85 * recommended_kv) \div 100 + d : d \in 0..1}
             \cup {(120 * recommended_kv) \div 100 + d : d \in 0..1}

InitDescribe ==
    /\ op = "describe_test_voltage_application"
    /\ \E recommended_kv \in RecommendedKvs :
          inputs \in [applied_kv : AppliedKvs(recommended_kv),
                      recommended_kv : {recommended_kv}]
    /\ InputsOnly

InitLibrary ==
    /\ op = "_build_test_library"
    /\ inputs = <<>>
    /\ InputsOnly

(* the values formatted: thousandths, values between two thousandths, values half
   way between two (one-sixteenth is dyadic, one two-thousandth is not) and a
   negative one *)
FormatValues ==
    { Rat(0), [num |-> 1, den |-> 2000], [num |-> 1, den |-> 16],
      [num |-> 3, den |-> 5000], [num |-> 2499, den |-> 2500],
      [num |-> 25, den |-> 2], [num |-> -3, den |-> 2] }

InitFormat ==
    /\ op = "format_series"
    /\ inputs \in [values : UNION {SeqsOf(FormatValues, n) : n \in 0..MaxLen}]
    /\ InputsOnly

(* the criteria of the library *)
LibraryCriteria ==
    UNION {{TestLibrary[t].criteria[1][k] : k \in 1..Len(TestLibrary[t].criteria[1])} :
               t \in 1..Len(TestLibrary)}

(* the prefill of the manual entry of a library criterion *)
InitSuggest ==
    /\ op = "_suggest_seed_values"
    /\ criterion \in LibraryCriteria
    /\ value = None /\ baseline = None
    /\ measurements = <<>> /\ statuses = <<>> /\ details = <<>>
    /\ raw_values = <<>> /\ tests = <<>>
    /\ scenario = "" /\ count = 0
    /\ inputs = <<>>

(* the slider of the sample count starts at 4 *)
MinSamples == 4

(* the criteria of the explorer passes: an upper band, a lower band, a qualitative
   criterion and a percentage_change criterion *)
UpperBand ==
    [id |-> <<"u">>, evaluation_type |-> Some("absolute"), unit |-> Some("kV"),
     note |-> None, minimum |-> None, investigate_below |-> None,
     investigate_above |-> Some(6000), maximum |-> Some(10000)]
LowerBand ==
    [id |-> <<"l">>, evaluation_type |-> Some("ratio"), unit |-> None,
     note |-> None, minimum |-> Some(10000), investigate_below |-> Some(15000),
     investigate_above |-> None, maximum |-> None]
Qualitative ==
    [id |-> <<"q">>, evaluation_type |-> Some("qualitative"), unit |-> None,
     note |-> None, minimum |-> None, investigate_below |-> None,
     investigate_above |-> None, maximum |-> None]
PercentBand ==
    [id |-> <<"p">>, evaluation_type |-> Some("percentage_change"), unit |-> None,
     note |-> None, minimum |-> None, investigate_below |-> None,
     investigate_above |-> Some(25), maximum |-> Some(75)]

NumericCriteria == {UpperBand, LowerBand, Qualitative}

(* the entries typed, joined into the text of the text area *)
Entries == {<<"0">>, <<"1">>, <<"2">>, <<"x">>}

RECURSIVE Typed(_, _)
Typed(entries, i) ==
    IF i > Len(entries) THEN <<>>
    ELSE (IF i > 1 THEN <<",", " ">> ELSE <<>>) \o entries[i] \o Typed(entries, i + 1)

TypedTexts == {Typed(entries, 1) : entries \in UNION {SeqsOf(Entries, n) : n \in 0..MaxEntries}}

(* a test without and one with the voltage table and the meanings of results *)
PlainTest == [kv_recommendations |-> None, result_implications |-> {}]
VoltageTests ==
    [kv_recommendations : {Some(BuiltInTable)},
     result_implications : {{}, {"Pass"}, {"default"}}]

(* the widgets of a pass: the mode, the text typed (none: the prefill is left),
   the baseline, the scenario and the sample count, and the two voltages *)
ManualPasses(c) ==
    [data_mode : {"Manual entry"},
     typed : (IF PercentageChange(c) THEN {} ELSE {None}) \cup {Some(t) : t \in TypedTexts},
     baseline_value : IF PercentageChange(c) THEN {0, 2, SimBaseline} ELSE {SimBaseline},
     scenario : {"Drifting"}, sample_count : {MinSamples},
     test : {PlainTest}, nameplate_kv : {None}, applied_kv : {None}]

VoltagePasses ==
    [data_mode : {"Manual entry"},
     typed : {Some(<<"1">>), Some(<<"x">>)},
     baseline_value : {SimBaseline},
     scenario : {"Drifting"}, sample_count : {MinSamples},
     test : VoltageTests, nameplate_kv : {None, Some(1)}, applied_kv : {None, Some(1)}]

SimulatedPasses ==
    [data_mode : {"Simulate scenario"},
     typed : {None}, baseline_value : {SimBaseline},
     scenario : Scenarios, sample_count : MinSamples..MaxSamples,
     test : {PlainTest} \cup {t \in VoltageTests : t.result_implications = {"default"}},
     nameplate_kv : {None}, applied_kv : {None}]

InitExplorer ==
    /\ op = "render_result_explorer"
    /\ \/ criterion \in NumericCriteria \cup {PercentBand} /\ inputs \in ManualPasses(criterion)
       \/ criterion = UpperBand /\ inputs \in VoltagePasses
       \/ criterion \in NumericCriteria /\ inputs \in SimulatedPasses
    /\ value = None /\ baseline = None
    /\ measurements = <<>> /\ statuses = <<>> /\ details = <<>>
    /\ raw_values = <<>> /\ tests = <<>>
    /\ scenario = "" /\ count = 0

(* the library of a session: a test with the voltage table and one without *)
SessionLibrary ==
    << [id |-> "t1", name |-> "t1", criteria |-> Some(<<UpperBand, PercentBand>>),
        kv_recommendations |-> Some(BuiltInTable), result_implications |-> {"default"}],
       [id |-> "t2", name |-> "t2", criteria |-> Some(<<LowerBand, Qualitative>>),
        kv_recommendations |-> None, result_implications |-> {}] >>

(* the slots of a library: <<test, criterion>> positions *)
SlotsOf(ts) ==
    UNION {{<<t, k>> : k \in 1..Len(ts[t].criteria[1])} : t \in 1..Len(ts)}

(* the widgets and arguments of the calls of a session *)
SessionPasses(call, c) ==
    [data_mode : IF call = "render_result_explorer" /\ ~PercentageChange(c)
                 THEN {"Manual entry", "Simulate scenario"} ELSE {"Manual entry"},
     typed : {Some(<<"1">>)}, baseline_value : {2},
     scenario : {"Healthy"}, sample_count : {MinSamples},
     nameplate_kv : {None}, applied_kv : {None},
     measured_value : IF call \in {"evaluate_measurement", "render_pass_fail_calculator"}
                      THEN {0, 2} ELSE {0}]

(* the draws of the generator in a call of a session *)
SessionDraws(call, in) ==
    IF call = "simulate_measurements" THEN SeqsOf(JitterLevels, 1)
    ELSE IF in.data_mode = "Simulate scenario"
    THEN {[i \in 1..in.sample_count |-> level] : level \in JitterLevels}
    ELSE {[i \in 1..SeedCount |-> 0]}

InitSession ==
    /\ op = "session"
    /\ tests = SessionLibrary
    /\ inputs = [index |-> Registry(SessionLibrary).index, made |-> {}]
    /\ criterion = NoCriterion
    /\ value = None /\ baseline = None
    /\ measurements = <<>> /\ statuses = <<>> /\ details = <<>>
    /\ raw_values = <<>>
    /\ scenario = "" /\ count = 0

InitStableSeed ==
    /\ op = "_stable_seed"
    /\ inputs \in [parts : PartLists]
    /\ InputsOnly

Init ==
    /\ pc = "call"
    /\ result = NoResult
    /\ outcome = NoOutcome
    /\ rng = NoRng /\ first_call = None /\ between = FALSE
    /\ (InitEvaluate \/ InitSummarize \/ InitParse \/ InitBuild \/ InitSimulate
          \/ InitRepeat \/ InitStableSeed \/ InitRecommend \/ InitDescribe
          \/ InitLibrary \/ InitFormat \/ InitSuggest \/ InitExplorer
          \/ InitSession)

EvaluateMeasurement ==
    /\ pc = "call" /\ op = "evaluate_measurement"
    /\ result' = evaluate_measurement(value, criterion, baseline)
    /\ pc' = "done"
    /\ UNCHANGED <<args, calls, outcome>>

SummarizeSeriesOutcome ==
    /\ pc = "call" /\ op = "summarize_series_outcome"
    /\ outcome' = summarize_series_outcome(measurements, statuses, details, criterion)
    /\ pc' = "done"
    /\ UNCHANGED <<args, calls, result>>

ParseMeasurementSeries ==
    /\ \/ pc = "call" /\ op = "parse_measurement_series"
       \/ pc = "parse"
    /\ outcome' = parse_measurement_series(raw_values)
    /\ pc' = "done"
    /\ UNCHANGED <<args, calls, result>>

BuildCriteriaIndex ==
    /\ pc = "call" /\ op = "build_criteria_index"
    /\ outcome' = build_criteria_index(tests)
    /\ pc' = "done"
    /\ UNCHANGED <<args, calls, result>>

(* a generator seeded as the first call's was repeats the first call's draws *)
Repeats(g, draws) ==
    IF first_call = None THEN TRUE
    ELSE IF g.seed # first_call[1].seed THEN TRUE
    ELSE \A i \in 1..Len(draws) :
            g.drawn + i <= Len(first_call[1].draws)
                => draws[i] = first_call[1].draws[g.drawn + i]

SimulateMeasurements ==
    /\ pc = "call" /\ op \in {"simulate_measurements", "simulate_measurements repeated"}
    /\ \E seed \in {_stable_seed(<<criterion.id, ScenarioChars(scenario), Str(count)>>)} :
       \E g \in {Random(seed, rng)} :
       \E draws \in SeqsOf(JitterLevels, count) :
             /\ Repeats(g, draws)
             /\ outcome' = simulate_measurements(criterion, scenario, count, draws)
             /\ rng' = [g EXCEPT !.drawn = @ + count]
             /\ first_call' = IF first_call # None THEN first_call
                         ELSE Some([criterion |-> criterion, scenario |-> scenario,
                                    count |-> count, seed |-> seed, draws |-> draws,
                                    returned |-> outcome'])
    /\ pc' = "done"
    /\ UNCHANGED <<args, between, result>>

(* the caller picks the arguments of the next call *)
ChooseArguments ==
    /\ pc = "done" /\ op = "simulate_measurements repeated"
    /\ criterion' \in RepeatCriteria
    /\ scenario' \in Scenarios
    /\ count' \in RepeatCounts
    /\ between' = (between \/ <<criterion', scenario', count'>>
                               # <<first_call[1].criterion, first_call[1].scenario,
                                   first_call[1].count>>)
    /\ outcome' = NoOutcome
    /\ pc' = "call"
    /\ UNCHANGED <<op, value, baseline, measurements, statuses, details, raw_values,
                   tests, inputs, rng, first_call, result>>

StableSeed ==
    /\ pc = "call" /\ op = "_stable_seed"
    /\ outcome' = [raised |-> "", seed |-> _stable_seed(inputs.parts)]
    /\ pc' = "done"
    /\ UNCHANGED <<args, calls, result>>

RecommendDcTestVoltage ==
    /\ pc = "call" /\ op = "recommend_dc_test_voltage"
    /\ outcome' = [raised |-> "",
                   recommended_kv |-> recommend_dc_test_voltage(inputs.nameplate_kv,
                                                                inputs.table)]
    /\ pc' = "done"
    /\ UNCHANGED <<args, calls, result>>

DescribeTestVoltageApplication ==
    /\ pc = "call" /\ op = "describe_test_voltage_application"
    /\ outcome' = [raised |-> "",
                   described |-> describe_test_voltage_application(inputs.applied_kv,
                                                                   inputs.recommended_kv)]
    /\ pc' = "done"
    /\ UNCHANGED <<args, calls, result>>

BuildTestLibrary ==
    /\ pc = "call" /\ op = "_build_test_library"
    /\ outcome' = [raised |-> "", tests |-> _build_test_library]
    /\ pc' = "done"
    /\ UNCHANGED <<args, calls, result>>

SuggestSeedValues ==
    /\ pc = "call" /\ op = "_suggest_seed_values"
    /\ \E seed \in {_stable_seed(<<criterion.id, ScenarioChars("Healthy"), Str(SeedCount)>>)} :
       \E g \in {Random(seed, rng)} :
       \E draws \in SeqsOf(JitterLevels, SeedCount) :
             /\ inputs' = [values |-> _suggest_seed_values(criterion, draws)]
             /\ rng' = [g EXCEPT !.drawn = @ + SeedCount]
             /\ first_call' = Some([criterion |-> criterion, scenario |-> "Healthy",
                                    count |-> SeedCount, seed |-> seed, draws |-> draws,
                                    returned |-> simulate_measurements(criterion, "Healthy",
                                                                       SeedCount, draws)])
    /\ pc' = "format"
    /\ UNCHANGED <<op, value, criterion, baseline, measurements, statuses, details,
                   raw_values, tests, scenario, count, between, result, outcome>>

(* the text of the values; the text area is prefilled with it *)
FormatSeries ==
    /\ \/ pc = "call" /\ op = "format_series"
       \/ pc = "format"
    /\ \E ups \in SeqsOf(BOOLEAN, Len(inputs.values)) :
          /\ \A i \in 1..Len(ups) :
                ups[i] => HalfWay(inputs.values[i]) /\ ~Dyadic(inputs.values[i])
          /\ raw_values' = format_series(inputs.values, ups)
    /\ pc' = "parse"
    /\ UNCHANGED <<op, value, criterion, baseline, measurements, statuses, details,
                   tests, scenario, count, inputs, calls, result, outcome>>

(* the values a pass formats: the seed values behind the prefill, or the
   simulated series *)
Formatted(c, in, draws) ==
    IF in.data_mode = "Manual entry" THEN _suggest_seed_values(c, draws)
    ELSE InUnits(c, simulate_measurements(c, in.scenario, in.sample_count, draws).values)

RenderResultExplorer ==
    /\ pc = "call" /\ op = "render_result_explorer"
    /\ \E s \in {IF inputs.data_mode = "Manual entry" THEN "Healthy" ELSE inputs.scenario} :
       \E n \in {IF inputs.data_mode = "Manual entry" THEN SeedCount ELSE inputs.sample_count} :
       \E seed \in {_stable_seed(<<criterion.id, ScenarioChars(s), Str(n)>>)} :
       \E g \in {Random(seed, rng)} :
       \E draws \in SeqsOf(JitterLevels, n) :
       \E formatted \in {Formatted(criterion, inputs, draws)} :
       \E ups \in {u \in SeqsOf(BOOLEAN, n) :
                      \A i \in 1..n : u[i] => HalfWay(formatted[i]) /\ ~Dyadic(formatted[i])} :
             /\ outcome' = render_result_explorer(criterion, inputs.test, inputs, draws, ups)
             /\ rng' = [g EXCEPT !.drawn = @ + n]
             /\ first_call' = Some([criterion |-> criterion, scenario |-> s,
                                    count |-> n, seed |-> seed, draws |-> draws,
                                    returned |-> simulate_measurements(criterion, s, n, draws)])
    /\ pc' = "done"
    /\ UNCHANGED <<args, between, result>>

(* what a call of the session returns *)
CallResult(call, c, test, in, draws) ==
    CASE call = "evaluate_measurement"
            -> evaluate_measurement(Some(in.measured_value), c,
                                    IF PercentageChange(c) THEN Some(in.baseline_value)
                                    ELSE None)
      [] call = "simulate_measurements"
            -> simulate_measurements(c, in.scenario, Len(draws), draws)
      [] call = "summarize_series_outcome"
            -> summarize_series_outcome(<<in.measured_value, 1>>, <<"Pass", "Fail">>,
                                        <<InfoValueResult.detail, InfoValueResult.detail>>, c)
      [] call = "render_result_explorer"
            -> render_result_explorer(c, test, in, draws, [i \in 1..Len(draws) |-> FALSE])
      [] call = "render_pass_fail_calculator"
            -> render_pass_fail_calculator(c, test, in)

(* one call of the session on a record of the registry *)
SessionCall ==
    /\ pc = "call" /\ op = "session"
    /\ \E call \in SessionCalls :
       \E slot \in SlotsOf(tests) :
       \E c \in {tests[slot[1]].criteria[1][slot[2]]} :
       \E in \in SessionPasses(call, c) :
       \E draws \in SessionDraws(call, in) :
             /\ outcome' = [raised |-> "", call |-> call,
                            returned |-> CallResult(call, c, tests[slot[1]], in, draws)]
             /\ tests' = WithCriterion(tests, slot, Handed(call, c))
             /\ inputs' = [index |-> Registry(tests').index,
                           made |-> inputs.made \cup {call}]
    /\ pc' = "call"
    /\ UNCHANGED <<op, value, criterion, baseline, measurements, statuses, details,
                   raw_values, scenario, count, calls, result>>

Next ==
    \/ EvaluateMeasurement
    \/ SummarizeSeriesOutcome
    \/ ParseMeasurementSeries
    \/ BuildCriteriaIndex
    \/ SimulateMeasurements
    \/ ChooseArguments
    \/ StableSeed
    \/ RecommendDcTestVoltage
    \/ DescribeTestVoltageApplication
    \/ BuildTestLibrary
    \/ SuggestSeedValues
    \/ FormatSeries
    \/ RenderResultExplorer
    \/ SessionCall

Spec == Init /\ [][Next]_vars

----------------------------------------------------------------------------
(* Properties of evaluate_measurement *)

EvalType == Get(criterion.evaluation_type, "absolute")
Returned == pc = "done" /\ op = "evaluate_measurement"

(* the call went past the early returns: a statistic was compared with the bounds *)
Compared ==
    /\ Returned
    /\ EvalType # "qualitative"
    /\ value # None
    /\ EvalType = "percentage_change" => (baseline # None /\ baseline[1] # 0)

Stat == ComparisonValue(EvalType, value, baseline)

Below(bound) == bound # None /\ Stat.num < bound[1] * Stat.den
Above(bound) == bound # None /\ Stat.num > bound[1] * Stat.den
At(bound) == bound # None /\ Stat.num = bound[1] * Stat.den
Noted(text) == \E i \in 1..Len(result.detail.notes) : result.detail.notes[i].text = text

AbsoluteBothHard ==
    /\ Compared
    /\ EvalType = "absolute"
    /\ criterion.minimum # None /\ criterion.maximum # None

C1_Verdicts ==
    /\ Below(criterion.minimum) => result.status = "Fail"
    /\ Above(criterion.maximum) => result.status = "Fail"
    /\ (/\ criterion.investigate_below # None /\ criterion.investigate_above # None
        /\ Above(criterion.investigate_below) /\ Below(criterion.investigate_above))
       => result.status = "Pass"

(* C1: for an absolute criterion with minimum and maximum set, whatever the caution
   thresholds are, a value below minimum is Fail, a value above maximum is Fail,
   and a value strictly between investigate_below and investigate_above is Pass. *)
C1_AnyCaution == AbsoluteBothHard => C1_Verdicts

(* C2: for a non-qualitative criterion, a statistic below a set minimum or above a
   set maximum ends as Fail, also when the caution threshold of the other side is
   crossed by the same statistic. *)
C2_FailOverrides ==
    (Compared /\ (Below(criterion.minimum) \/ Above(criterion.maximum)))
        => result.status = "Fail"

(* C3: the comparisons are strict: a statistic equal to a bound does not trigger
   that bound, and a percentage_change criterion with only maximum set whose
   computed change equals the maximum is Pass. *)
C3_StrictBounds ==
    Compared =>
        /\ At(criterion.minimum) => ~Noted("below minimum of")
        /\ At(criterion.investigate_below) => ~Noted("below caution threshold of")
        /\ At(criterion.maximum) => ~Noted("above maximum of")
        /\ At(criterion.investigate_above) => ~Noted("above caution threshold of")
        /\ (/\ EvalType = "percentage_change"
            /\ criterion.minimum = None
            /\ criterion.investigate_below = None
            /\ criterion.investigate_above = None
            /\ At(criterion.maximum))
           => result.status = "Pass"

C3_Witness ==
    /\ Compared
    /\ EvalType = "percentage_change"
    /\ criterion.minimum = None
    /\ criterion.investigate_below = None
    /\ criterion.investigate_above = None
    /\ At(criterion.maximum)
    /\ value[1] # baseline[1]
    /\ result.status = "Pass"

(* C4: a percentage_change criterion with a numeric value and a baseline that is
   absent or zero returns Info (baseline required), whatever the bounds; no bound
   is checked. *)
C4_BaselineRequired ==
    (/\ Returned
     /\ EvalType = "percentage_change"
     /\ value # None
     /\ (baseline = None \/ baseline[1] = 0))
        => /\ result.status = "Info"
           /\ result.detail.text
                = "Baseline or reference value is required to compute percent change."
           /\ result.detail.notes = <<>>

C4_Witness ==
    /\ Returned
    /\ EvalType = "percentage_change"
    /\ value # None /\ value[1] > 0
    /\ baseline = Some(0)
    /\ criterion.maximum = Some(0)
    /\ result.status = "Info"

(* C5: a qualitative criterion returns Review with one fixed detail for every
   value (a missing one included), baseline and combination of bounds. *)
C5_QualitativeReview ==
    (Returned /\ EvalType = "qualitative")
        => /\ result.status = "Review"
           /\ result.detail
                = [text |-> "Document observations - qualitative checks rely on professional judgment.",
                   shown |-> None, unit |-> None, notes |-> <<>>]

C5_Witness ==
    /\ Returned
    /\ EvalType = "qualitative"
    /\ value = None
    /\ baseline = None
    /\ criterion.minimum # None
    /\ result.status = "Review"

(* C6: a non-qualitative criterion with a missing value returns Info asking for a
   numeric value, whatever the baseline and bounds; the missing value is reported
   before the missing baseline. *)
C6_MissingValue ==
    (Returned /\ EvalType # "qualitative" /\ value = None)
        => /\ result.status = "Info"
           /\ result.detail.text = "Enter a numeric value to evaluate."
           /\ result.detail.notes = <<>>

C6_Witness ==
    /\ Returned
    /\ EvalType = "percentage_change"
    /\ value = None
    /\ baseline = None
    /\ result.detail.text = "Enter a numeric value to evaluate."

Mirrored == Some(2 * baseline[1] - value[1])

(* C7: in percentage_change mode with a non-zero baseline the statistic is never
   negative, and the value as far on the other side of the baseline has the same
   statistic and the same status. *)
C7_Undirected ==
    (Compared /\ EvalType = "percentage_change")
        => /\ Stat.num >= 0 /\ Stat.den > 0
           /\ result.detail.shown[1] >= 0
           /\ RatEq(Stat, ComparisonValue(EvalType, Mirrored, baseline))
           /\ evaluate_measurement(Mirrored, criterion, baseline).status = result.status

C7_Witness ==
    /\ Compared
    /\ EvalType = "percentage_change"
    /\ baseline[1] < 0
    /\ value[1] < baseline[1]
    /\ Stat.num > 0
    /\ result.status = "Investigate"

AnyTrigger ==
    \/ Below(criterion.minimum)
    \/ Below(criterion.investigate_below)
    \/ Above(criterion.maximum)
    \/ Above(criterion.investigate_above)

(* C8: with a present value (and a usable baseline in percentage_change mode) the
   status is Pass exactly when none of the four bound conditions triggers; a
   criterion without bounds always gives Pass. *)
C8_PassIffNoTrigger ==
    Compared =>
        /\ result.status = "Pass" <=> ~AnyTrigger
        /\ (/\ criterion.minimum = None /\ criterion.maximum = None
            /\ criterion.investigate_below = None /\ criterion.investigate_above = None)
           => result.status = "Pass"

C8_Witness ==
    /\ Compared
    /\ criterion.minimum # None /\ criterion.maximum # None
    /\ criterion.investigate_below # None /\ criterion.investigate_above # None
    /\ ~AnyTrigger
    /\ result.status = "Pass"

CautionBandBelowMaximum ==
    /\ Compared
    /\ criterion.minimum = None
    /\ criterion.investigate_below # None
    /\ criterion.investigate_above # None
    /\ criterion.maximum # None
    /\ criterion.investigate_below[1] < criterion.investigate_above[1]
    /\ criterion.investigate_above[1] < criterion.maximum[1]

(* C9: with investigate_below < investigate_above < maximum set and no minimum, a
   statistic below investigate_below is Investigate, one above investigate_above
   but not above maximum is Investigate, and one above maximum is Fail. *)
C9_CautionThenFail ==
    CautionBandBelowMaximum =>
        /\ Below(criterion.investigate_below) => result.status = "Investigate"
        /\ (Above(criterion.investigate_above) /\ ~Above(criterion.maximum))
             => result.status = "Investigate"
        /\ Above(criterion.maximum) => result.status = "Fail"

C9_Witness ==
    /\ CautionBandBelowMaximum
    /\ EvalType = "absolute"
    /\ Above(criterion.maximum)
    /\ result.status = "Fail"

LowerTriggers == Below(criterion.minimum) \/ Below(criterion.investigate_below)
UpperTriggers == Above(criterion.maximum) \/ Above(criterion.investigate_above)

(* C25: when a condition of the lower block (minimum / investigate_below) and a
   condition of the upper block (maximum / investigate_above) both trigger for the
   same statistic, the final status is the one the upper block assigns: Fail when
   the statistic is above maximum, else Investigate, whatever the lower block
   assigned. *)
C25_UpperBlockWins ==
    (Compared /\ LowerTriggers /\ UpperTriggers)
        => result.status = IF Above(criterion.maximum) THEN "Fail" ELSE "Investigate"

(* the lower block assigned Fail and the upper block replaced it by Investigate *)
C25_Witness ==
    /\ Compared
    /\ Below(criterion.minimum)
    /\ Above(criterion.investigate_above)
    /\ ~Above(criterion.maximum)
    /\ Noted("below minimum of")
    /\ result.status = "Investigate"

----------------------------------------------------------------------------
(* Properties of summarize_series_outcome *)

Summarized == pc = "done" /\ op = "summarize_series_outcome"
Has(s) == \E i \in 1..Len(statuses) : statuses[i] = s

(* C10: on a non-empty series the severity is error exactly when some status is
   Fail, warning exactly when none is Fail and some is Investigate, and success
   otherwise, wherever in the series the Fail or Investigate stands. *)
C10_Severity ==
    (Summarized /\ Len(statuses) > 0)
        => /\ outcome.raised = ""
           /\ outcome.severity = "error" <=> Has("Fail")
           /\ outcome.severity = "warning" <=> (~Has("Fail") /\ Has("Investigate"))
           /\ outcome.severity = "success" <=> (~Has("Fail") /\ ~Has("Investigate"))

C10_Witness ==
    /\ Summarized
    /\ Len(statuses) = 3
    /\ statuses[1] = "Fail"
    /\ statuses[2] = "Investigate"
    /\ statuses[3] = "Review"
    /\ outcome.severity = "error"

NumberOf(s) == Cardinality({i \in 1..Len(statuses) : statuses[i] = s})

(* C11: in the error and warning cases the narrative reports the number of Fail
   (respectively Investigate) statuses of the whole series, and its latest status
   and detail are those of the last element, also when the last element is not a
   Fail (respectively not an Investigate). *)
C11_CountAndLatest ==
    (Summarized /\ Len(statuses) > 0 /\ outcome.severity \in {"error", "warning"})
        => /\ outcome.severity = "error" => outcome.summary.count = NumberOf("Fail")
           /\ outcome.severity = "warning" => outcome.summary.count = NumberOf("Investigate")
           /\ outcome.summary.latest_status = <<statuses[Len(statuses)]>>
           /\ outcome.summary.latest_detail = details[Len(details)]

C11_Witness ==
    /\ Summarized
    /\ Len(statuses) = 3
    /\ statuses[1] = "Fail"
    /\ statuses[2] = "Fail"
    /\ statuses[3] = "Pass"
    /\ outcome.severity = "error"
    /\ outcome.summary.count = 2
    /\ outcome.summary.latest_status = <<"Pass">>
    /\ outcome.summary.latest_detail = 3

(* C12: the trend depends only on the first and the last measurement: increasing
   when last > first + 1e-9, decreasing when last < first - 1e-9, flat otherwise;
   a one-element series is flat, the values in between do not matter, and the
   trend is reported for every severity.  (Measurements are in units of 1e-9.) *)
C12_TrendFirstLast ==
    (Summarized /\ Len(measurements) > 0)
        => LET first == measurements[1]
               last == measurements[Len(measurements)]
           IN  /\ outcome.severity \in {"error", "warning", "success"}
               /\ outcome.summary.trend = "increasing" <=> last - first > 1
               /\ outcome.summary.trend = "decreasing" <=> first - last > 1
               /\ outcome.summary.trend = "flat" <=> (last - first <= 1 /\ first - last <= 1)
               /\ Len(measurements) = 1 => outcome.summary.trend = "flat"

C12_Witness ==
    /\ Summarized
    /\ Len(measurements) = 3
    /\ measurements[1] = 0
    /\ measurements[2] = 2
    /\ measurements[3] = 1
    /\ outcome.severity = "success"
    /\ outcome.summary.trend = "flat"

----------------------------------------------------------------------------
(* Properties of parse_measurement_series *)

Parsed == pc = "done" /\ op = "parse_measurement_series"

IsSep(i) == raw_values[i] \in {" ", "\t", "\n", ",", ";", "-", "/"}

(* the positions where a maximal run of non-separator characters starts *)
TokenStarts == {i \in 1..Len(raw_values) : ~IsSep(i) /\ (i = 1 \/ IsSep(i - 1))}
TokenEnd(i) ==
    CHOOSE j \in i..Len(raw_values) :
        /\ \A k \in i..j : ~IsSep(k)
        /\ (j = Len(raw_values) \/ IsSep(j + 1))
TokenAt(i) == SubSeq(raw_values, i, TokenEnd(i))

RECURSIVE Ordered(_)
(* the elements of a set of positions, ascending *)
Ordered(S) ==
    IF S = {} THEN <<>>
    ELSE LET m == CHOOSE x \in S : \A y \in S : x <= y
         IN  <<m>> \o Ordered(S \ {m})

TokensInOrder == [k \in 1..Cardinality(TokenStarts) |-> TokenAt(Ordered(TokenStarts)[k])]

Numeric(t) == FloatOk(t)
NotNumeric(t) == ~FloatOk(t)
ValueOfToken(toks) == [k \in 1..Len(toks) |-> FloatOf(toks[k])]

(* C13: every non-empty token between runs of separators lands in exactly one of
   the two outputs, values if it is a number and invalid_tokens otherwise, each
   output in input order; an invalid token does not stop the parse; an empty or
   whitespace-only text gives two empty lists. *)
C13_PartialSuccess ==
    Parsed =>
        /\ outcome.values = ValueOfToken(SelectSeq(TokensInOrder, Numeric))
        /\ outcome.invalid = SelectSeq(TokensInOrder, NotNumeric)
        /\ Len(outcome.values) + Len(outcome.invalid) = Cardinality(TokenStarts)
        /\ (\A i \in 1..Len(raw_values) : raw_values[i] = " ")
             => (outcome.values = <<>> /\ outcome.invalid = <<>>)

C13_Witness ==
    /\ Parsed
    /\ raw_values = <<"1", ",", "a", ",", "1">>
    /\ outcome.values = <<[num |-> 1, den |-> 1], [num |-> 1, den |-> 1]>>
    /\ outcome.invalid = <<(<<"a">>)>>

PlainText ==
    \A i \in 1..Len(raw_values) : raw_values[i] \in Digits \cup {"."} \/ IsSep(i)

(* the starts of the numeric tokens, ascending *)
NumericStarts == Ordered({i \in TokenStarts : Numeric(TokenAt(i))})

MinusBefore(i) == i > 1 /\ raw_values[i - 1] = "-"

(* C28: for a text of digits, points, hyphens and other separators no returned value
   is negative, and a number written with a leading minus sign is returned as its
   absolute value, with no entry for it in invalid_tokens. *)
C28_NeverNegative ==
    (Parsed /\ PlainText) =>
        /\ \A k \in 1..Len(outcome.values) : outcome.values[k].num >= 0
        /\ Len(outcome.values) = Len(NumericStarts)
        /\ \A k \in 1..Len(NumericStarts) :
               LET token == TokenAt(NumericStarts[k])
               IN  MinusBefore(NumericStarts[k])
                     => /\ outcome.values[k] = FloatOf(token)
                        /\ \A n \in 1..Len(outcome.invalid) :
                               outcome.invalid[n] \notin {token, <<"-">> \o token}

(* "-1.1" is returned as 1.1 *)
C28_Witness ==
    /\ Parsed
    /\ raw_values = <<"-", "1", ".", "1">>
    /\ outcome.values = <<[num |-> 11, den |-> 10]>>
    /\ outcome.invalid = <<>>

----------------------------------------------------------------------------
(* Properties of simulate_measurements *)

Simulated ==
    /\ pc = "done"
    /\ op \in {"simulate_measurements", "simulate_measurements repeated"}

(* the classification of a synthesized value with the returned baseline.  A rational
   reading n/d against the baseline b has the statistic of the reading n against
   the baseline b * d. *)
Judged(v) ==
    evaluate_measurement(Some(v.num), criterion,
                         IF outcome.baseline = None THEN None
                         ELSE Some(outcome.baseline[1] * v.den))

NotedIn(r, text) == \E i \in 1..Len(r.detail.notes) : r.detail.notes[i].text = text

SameArguments ==
    /\ first_call # None
    /\ criterion = first_call[1].criterion
    /\ scenario = first_call[1].scenario
    /\ count = first_call[1].count

(* C14: a call of simulate_measurements with the criterion record, scenario and count
   of an earlier call returns the values and the baseline the earlier call
   returned, whatever calls with other arguments were made in between. *)
C14_SameArgumentsSameResult ==
    (Simulated /\ SameArguments) => outcome = first_call[1].returned

(* a call repeated after a call with other arguments, returning two values *)
C14_Witness ==
    /\ Simulated
    /\ SameArguments
    /\ between
    /\ Len(outcome.values) = 2
    /\ outcome = first_call[1].returned

PositiveMaximum == criterion.maximum # None /\ criterion.maximum[1] > 0

OnlyPositiveMinimum ==
    /\ criterion.maximum = None
    /\ criterion.minimum # None /\ criterion.minimum[1] > 0

(* C15: for a criterion that is not percentage_change and the scenario Healthy, every
   synthesized value is strictly below a positive maximum, or, when only a positive
   minimum is set, strictly above it, and evaluate_measurement does not fail the
   value on that bound; this for every count >= 1. *)
C15_HealthyInsideBound ==
    (Simulated /\ EvalType # "percentage_change" /\ scenario = "Healthy" /\ count >= 1)
        => \A i \in 1..Len(outcome.values) :
              LET v == outcome.values[i]
              IN  /\ PositiveMaximum
                        => /\ Lt(v, criterion.maximum[1])
                           /\ ~NotedIn(Judged(v), "above maximum of")
                  /\ OnlyPositiveMinimum
                        => /\ Gt(v, criterion.minimum[1])
                           /\ ~NotedIn(Judged(v), "below minimum of")

(* C16: for a criterion that is not percentage_change and the scenario Out of
   tolerance, the last synthesized value is above a positive maximum, or, when only
   a positive minimum is set, below it, and evaluate_measurement classifies it as
   Fail; this for every count >= 1. *)
C16_OutOfToleranceFails ==
    (Simulated /\ EvalType # "percentage_change" /\ scenario = "Out of tolerance"
               /\ count >= 1)
        => LET v == outcome.values[Len(outcome.values)]
           IN  /\ PositiveMaximum
                     => Gt(v, criterion.maximum[1]) /\ Judged(v).status = "Fail"
               /\ OnlyPositiveMinimum
                     => Lt(v, criterion.minimum[1]) /\ Judged(v).status = "Fail"

(* C17: the baseline simulate_measurements returns is 100 for a percentage_change
   criterion and None for every other mode, for every scenario and count, and no
   value of a percentage_change series evaluated with that baseline gets the
   status Info. *)
C17_BaselineByMode ==
    Simulated
        => IF EvalType = "percentage_change"
           THEN /\ outcome.baseline = Some(100)
                /\ \A i \in 1..Len(outcome.values) :
                       Judged(outcome.values[i]).status # "Info"
           ELSE outcome.baseline = None

(* a percentage_change series whose last value, evaluated with the baseline 100,
   exceeds the maximum *)
C17_Witness ==
    /\ Simulated
    /\ EvalType = "percentage_change"
    /\ outcome.baseline = Some(100)
    /\ Len(outcome.values) = MaxCount
    /\ Judged(outcome.values[MaxCount]).status = "Fail"

----------------------------------------------------------------------------
(* Properties of _stable_seed *)

Seeded == pc = "done" /\ op = "_stable_seed"

RECURSIVE Flatten(_)
Flatten(ps) == IF ps = <<>> THEN <<>> ELSE ps[1] \o Flatten(Tail(ps))

(* arithmetic modulo 2**32 on the two halves: x * m for a small m, and x + y *)
TimesSmall(x, m) ==
    LET lo == x.lo * m
        hi == x.hi * m + lo \div HalfWord
    IN  [hi |-> hi % HalfWord, lo |-> lo % HalfWord]

PlusMod(x, y) ==
    LET lo == x.lo + y.lo
        hi == x.hi + y.hi + lo \div HalfWord
    IN  [hi |-> hi % HalfWord, lo |-> lo % HalfWord]

RECURSIVE PowerOf31(_)
PowerOf31(k) == IF k = 0 THEN OneSeed ELSE TimesSmall(PowerOf31(k - 1), 31)

RECURSIVE PolynomialFrom(_, _)
(* the sum of ord(chars[j]) * 31^(n - j) for j = i..n, modulo 2**32 *)
PolynomialFrom(chars, i) ==
    IF i > Len(chars) THEN ZeroSeed
    ELSE PlusMod(TimesSmall(PowerOf31(Len(chars) - i), Ord(chars[i])),
                 PolynomialFrom(chars, i + 1))

(* C27: _stable_seed returns the base-31 polynomial hash of the characters of the
   parts in order, modulo 2^32, with the hash 0 (the hash of the empty input too)
   replaced by 1; the result is an integer from 1 to 2^32 - 1. *)
C27_SeedRange ==
    Seeded =>
        LET hash == PolynomialFrom(Flatten(inputs.parts), 1)
        IN  /\ outcome.seed = IF hash = ZeroSeed THEN OneSeed ELSE hash
            /\ outcome.seed.hi \in 0..(HalfWord - 1)
            /\ outcome.seed.lo \in 0..(HalfWord - 1)
            /\ outcome.seed # ZeroSeed

(* _stable_seed("~~~", "~~~~") = 3883829566 = 59262 * 2**16 + 35134: the polynomial
   115552979262 reduced modulo 2**32 *)
C27_Witness ==
    /\ Seeded
    /\ inputs.parts = <<(<<"~", "~", "~">>), (<<"~", "~", "~", "~">>)>>
    /\ outcome.seed = [hi |-> 59262, lo |-> 35134]

----------------------------------------------------------------------------
(* Properties of recommend_dc_test_voltage and describe_test_voltage_application *)

Recommended == pc = "done" /\ op = "recommend_dc_test_voltage"
Described == pc = "done" /\ op = "describe_test_voltage_application"

(* the rows whose rating covers the nameplate voltage *)
Qualifying ==
    {i \in 1..Len(inputs.table) : inputs.nameplate_kv <= inputs.table[i].max_rating_kv}

FirstQualifying == CHOOSE i \in Qualifying : \A j \in Qualifying : i <= j

Ascending ==
    \A i \in 1..(Len(inputs.table) - 1) :
        /\ inputs.table[i].max_rating_kv <= inputs.table[i + 1].max_rating_kv
        /\ inputs.table[i].dc_test_kv <= inputs.table[i + 1].dc_test_kv

(* C30: recommend_dc_test_voltage returns the dc_test_kv of the first row whose
   max_rating_kv is >= the nameplate voltage, that of the last row when no row
   qualifies, and 0 for an empty table; for a table ascending in both columns the
   result does not decrease when the nameplate voltage grows; and
   describe_test_voltage_application returns the enter-a-nameplate-voltage info
   message exactly when the recommended voltage is <= 0. *)
C30_VoltageGuidance ==
    /\ Recommended =>
          /\ outcome.recommended_kv =
                IF inputs.table = <<>> THEN 0
                ELSE IF Qualifying # {} THEN inputs.table[FirstQualifying].dc_test_kv
                ELSE inputs.table[Len(inputs.table)].dc_test_kv
          /\ Ascending =>
                \A higher \in Nameplates(inputs.table) :
                    higher >= inputs.nameplate_kv
                      => recommend_dc_test_voltage(higher, inputs.table)
                            >= outcome.recommended_kv
    /\ Described =>
          /\ (outcome.described.message = EnterNameplate) <=> (inputs.recommended_kv <= 0)
          /\ outcome.described.message = EnterNameplate
                => outcome.described.severity = "info"

(* a nameplate voltage above every rating of the built-in table gets the last row *)
C30_Witness ==
    /\ Recommended
    /\ inputs.table = BuiltInTable
    /\ inputs.nameplate_kv = 1381
    /\ Qualifying = {}
    /\ outcome.recommended_kv = 250

----------------------------------------------------------------------------
(* Properties of the three functions together *)

(* C21: no call raises: evaluate_measurement returns a classification for every
   numeric value and baseline, simulate_measurements returns a result for every
   scenario and count >= 1, and summarize_series_outcome returns a result for
   every series with matching statuses and details, the empty series included. *)
C21_NeverRaises ==
    /\ (Returned /\ value # None /\ baseline # None) => result.status \in Statuses
    /\ (Simulated /\ count >= 1)
          => (outcome.raised = "" /\ Len(outcome.values) = count)
    /\ Summarized => outcome.raised = ""

----------------------------------------------------------------------------
(* Properties of _build_test_library *)

LibraryBuilt == pc = "done" /\ op = "_build_test_library"

(* the criteria of the tests returned, as pairs <<test position, criterion position>> *)
LibrarySlots ==
    UNION {{<<t, k>> : k \in 1..Len(outcome.tests[t].criteria[1])}
           : t \in 1..Len(outcome.tests)}

LibraryCriterion(slot) == outcome.tests[slot[1]].criteria[1][slot[2]]

HasBound(c) ==
    \/ c.minimum # None \/ c.maximum # None
    \/ c.investigate_below # None \/ c.investigate_above # None

(* C26: every criterion of the built-in library has at least one bound unless it is
   qualitative; where both exist, investigate_above < maximum and
   investigate_below > minimum; the criterion identifiers are unique across the
   library; and every test has at least one criterion. *)
C26_LibraryInvariant ==
    LibraryBuilt =>
        /\ \A slot \in LibrarySlots :
              LET c == LibraryCriterion(slot)
              IN  /\ c.evaluation_type # Some("qualitative") => HasBound(c)
                  /\ (c.investigate_above # None /\ c.maximum # None)
                        => c.investigate_above[1] < c.maximum[1]
                  /\ (c.investigate_below # None /\ c.minimum # None)
                        => c.investigate_below[1] > c.minimum[1]
        /\ \A a, b \in LibrarySlots :
              LibraryCriterion(a).id = LibraryCriterion(b).id => a = b
        /\ \A t \in 1..Len(outcome.tests) :
              outcome.tests[t].criteria # None /\ Len(outcome.tests[t].criteria[1]) >= 1

----------------------------------------------------------------------------
(* Properties of format_series followed by parse_measurement_series *)

RoundTripped == pc = "done" /\ op \in {"format_series", "_suggest_seed_values"}

NonNegative == \A i \in 1..Len(inputs.values) : inputs.values[i].num >= 0

(* parsed is a whole number of thousandths at most half a thousandth from v *)
RoundedToThree(parsed, v) ==
    /\ RatMul(parsed, Rat(1000)).den = 1
    /\ LET d == RatAbs(RatSub(parsed, v)) IN 2000 * d.num <= d.den

(* C29: the text format_series makes of a list of non-negative values is parsed
   by parse_measurement_series without invalid tokens into a list of the same
   length and order whose elements are the values rounded to three decimals, and
   the Healthy seed values suggested for a library criterion are such a list. *)
C29_FormatParseRoundTrip ==
    RoundTripped =>
        /\ op = "_suggest_seed_values"
              => NonNegative /\ Len(inputs.values) = SeedCount
        /\ NonNegative
              => /\ outcome.invalid = <<>>
                 /\ Len(outcome.values) = Len(inputs.values)
                 /\ \A i \in 1..Len(inputs.values) :
                        RoundedToThree(outcome.values[i], inputs.values[i])

(* the seed values of a library criterion, one of them half way between two
   thousandths, were formatted and parsed into three values *)
C29_Witness ==
    /\ RoundTripped /\ op = "_suggest_seed_values"
    /\ \E i \in 1..Len(inputs.values) : HalfWay(inputs.values[i])
    /\ outcome.invalid = <<>>
    /\ Len(outcome.values) = SeedCount

----------------------------------------------------------------------------
(* Properties of render_result_explorer *)

Explored == pc = "done" /\ op = "render_result_explorer"

(* the widgets of the pass that are of the given kind *)
OfKind(kind) == {i \in 1..Len(outcome.ui) : outcome.ui[i].kind = kind}

Calls(fn) == {i \in 1..Len(outcome.called) : outcome.called[i] = fn}

(* C23: a pass whose series is empty emits the warning that asks for a numeric
   value and stops: it calls neither evaluate_measurement nor
   summarize_series_outcome and renders no table, chart or summary message. *)
C23_EmptySeriesStops ==
    (Explored /\ outcome.measurements = <<>>) =>
        /\ outcome.raised = ""
        /\ LET last == outcome.ui[Len(outcome.ui)]
           IN  last.widget = "warning" /\ last.kind = "guard" /\ last.content = GuardMessage
        /\ Cardinality(OfKind("guard")) = 1
        /\ Calls("evaluate_measurement") = {}
        /\ Calls("summarize_series_outcome") = {}
        /\ OfKind("table") = {} /\ OfKind("chart") = {} /\ OfKind("summary") = {}
        /\ OfKind("latest") = {} /\ OfKind("meaning") = {}

(* a pass of manual entry whose text held nothing numeric ended with the two
   warnings, of the ignored entry and of the empty series *)
C23_Witness ==
    /\ Explored /\ outcome.measurements = <<>>
    /\ inputs.data_mode = "Manual entry"
    /\ inputs.typed = Some(<<"x">>)
    /\ OfKind("invalid") # {}
    /\ OfKind("guard") # {}

(* C24: a pass whose series is not empty shows one table whose Assessment column
   has one entry per measurement, in the order of the series, each the status
   evaluate_measurement returns for the measurement with the selected criterion
   and the baseline of the pass; and it emits one summary message, through the
   renderer named by the severity summarize_series_outcome returns. *)
C24_AssessmentsAndSummary ==
    (Explored /\ outcome.measurements # <<>>) =>
        /\ outcome.raised = ""
        /\ Cardinality(OfKind("table")) = 1
        /\ Cardinality(OfKind("summary")) = 1
        /\ \A t \in OfKind("table") : \A m \in OfKind("summary") :
              LET ms == outcome.measurements
                  shown == outcome.ui[t].content
                  said == outcome.ui[m]
              IN  /\ outcome.ui[t].widget = "dataframe"
                  /\ Len(shown.Assessment) = Len(ms)
                  /\ \A i \in 1..Len(ms) :
                        shown.Assessment[i]
                            = evaluate_measurement(Some(ms[i]), criterion,
                                                   outcome.baseline).status
                  /\ t < m
                  /\ said.widget \in {"error", "warning", "success"}
                  /\ said.widget
                        = summarize_series_outcome(InTolerances(criterion, ms),
                                                   shown.Assessment, shown.Insight,
                                                   criterion).severity

(* three values were typed for the upper band, one passing, one in the investigate
   band, one failing, and the summary went out as an error *)
C24_Witness ==
    /\ Explored
    /\ criterion = UpperBand
    /\ outcome.measurements = <<0, UnitsPerOne, 2 * UnitsPerOne>>
    /\ \E t \in OfKind("table") :
          outcome.ui[t].content.Assessment = <<"Pass", "Investigate", "Fail">>
    /\ \E m \in OfKind("summary") : outcome.ui[m].widget = "error"

----------------------------------------------------------------------------
(* Properties of a session *)

InSession == op = "session"

(* C22: the registry is read-only after construction: whatever calls of
   evaluate_measurement, simulate_measurements, summarize_series_outcome, the
   explorer pass and the calculator pass a session makes, every test record and
   every criterion record is as the library was built and the index is the index
   of that library. *)
C22_RegistryReadOnly ==
    InSession =>
        /\ tests = SessionLibrary
        /\ inputs.index = build_criteria_index(SessionLibrary).index[1]
        /\ \A key \in DOMAIN inputs.index :
              \E slot \in SlotsOf(SessionLibrary) :
                 /\ inputs.index[key].test = SessionLibrary[slot[1]]
                 /\ inputs.index[key].criterion
                        = SessionLibrary[slot[1]].criteria[1][slot[2]]

(* each of the five calls was made, the last one a summary *)
C22_Witness ==
    /\ InSession
    /\ inputs.made = SessionCalls
    /\ outcome.raised = "" /\ outcome.call = "summarize_series_outcome"
    /\ tests = SessionLibrary

----------------------------------------------------------------------------
(* Properties of build_criteria_index *)

Built == pc = "done" /\ op = "build_criteria_index"

LacksCriteria == \E t \in 1..Len(tests) : tests[t].criteria = <<>>

(* the criteria of the input, as (test position, criterion position) *)
Slots ==
    {<<t, j>> \in (1..Len(tests)) \X (1..MaxCrit + 1) :
        tests[t].criteria # <<>> /\ j <= Len(tests[t].criteria[1])}
CritAt(sl) == tests[sl[1]].criteria[1][sl[2]]

DuplicateCriterion == \E a, b \in Slots : a # b /\ CritAt(a).id = CritAt(b).id
DuplicateTest == \E a, b \in 1..Len(tests) : a # b /\ tests[a].id = tests[b].id

(* C18: building from records of which one lacks the criteria field fails with a
   ValidationError naming the missing field, and produces no registry, not even
   one of the earlier records. *)
C18_MissingCriteriaRejected ==
    (Built /\ LacksCriteria)
        => /\ outcome.raised = "ValidationError"
           /\ outcome.key = "criteria"
           /\ outcome.index = <<>>

(* C19: building from records in which two criteria, or two tests, share an
   identifier fails; a registry that is built holds no fewer entries than its
   input has criteria, and no criterion is replaced by a later one. *)
C19_DuplicatesRejected ==
    (Built /\ ~LacksCriteria)
        => /\ (DuplicateCriterion \/ DuplicateTest) => outcome.raised # ""
           /\ outcome.raised = ""
                => /\ Cardinality(DOMAIN outcome.index[1]) >= Cardinality(Slots)
                   /\ \A sl \in Slots :
                        /\ CritAt(sl).id \in DOMAIN outcome.index[1]
                        /\ outcome.index[1][CritAt(sl).id]
                             = [test |-> tests[sl[1]], criterion |-> CritAt(sl)]

(* C20: over tests whose criterion identifiers are unique, the index has exactly
   one entry per criterion of every test, keyed by the criterion identifier, and
   each entry pairs the criterion with the test that owns it. *)
C20_IndexPairsOwner ==
    (Built /\ ~LacksCriteria /\ ~DuplicateCriterion)
        => /\ outcome.raised = ""
           /\ DOMAIN outcome.index[1] = {CritAt(sl).id : sl \in Slots}
           /\ Cardinality(DOMAIN outcome.index[1]) = Cardinality(Slots)
           /\ \A sl \in Slots :
                LET e == outcome.index[1][CritAt(sl).id]
                IN  /\ e.criterion = CritAt(sl)
                    /\ e.test = tests[sl[1]]
                    /\ \E j \in 1..Len(e.test.criteria[1]) :
                         e.test.criteria[1][j] = e.criterion

C20_Witness ==
    /\ Built
    /\ Len(tests) = 2
    /\ ~LacksCriteria /\ ~DuplicateCriterion
    /\ Cardinality(Slots) = 3
    /\ Cardinality(DOMAIN outcome.index[1]) = 3

====
